---- MODULE Spec2Model ----
(***************************************************************************)
(* Model of the compare engine of the Compare plugin (src/Engine/Engine.cpp)*)
(* Characters are their codes, a line is a sequence of characters, a        *)
(* document is a non-empty sequence of lines (the empty document is the     *)
(* single empty line).  Vectors keep the 0-based values of the code; the    *)
(* sequences that hold them are indexed with +1.                            *)
(***************************************************************************)
EXTENDS Integers, Sequences, FiniteSets, TLC

\* ------------------------------------------------------------------ bounds
MaxLines == 2
MaxBlockLines == 2
MaxMoveLines == 3
MaxTokens == 3
MaxLineLen == 3
MaxProbeLines == 17
MaxProbeUnder == 2
MaxViewLines == 3
MaxSections == 2
MaxSkipPush == 2
MaxChangePos == 2
MaxCoalesced == 3
MaxBuffers == 3
MaxPairs == 2

\* ------------------------------------------------------- program constants
monitorCancelEachXLine == 500
ConvergenceThreshold == 50

MAIN_VIEW == "MAIN_VIEW"
SUB_VIEW == "SUB_VIEW"

DIFF_MATCH == "DIFF_MATCH"
DIFF_IN_1 == "DIFF_IN_1"
DIFF_IN_2 == "DIFF_IN_2"

NOT_MOVED == "NOT_MOVED"
MOVED == "MOVED"
MOVED_MULTIPLE == "MOVED_MULTIPLE"

DONT_DETECT == "DONT_DETECT"
ELEMENT_BASED == "ELEMENT_BASED"
BLOCK_BASED == "BLOCK_BASED"

SPACECHAR == "SPACECHAR"
ALPHANUMCHAR == "ALPHANUMCHAR"
OTHERCHAR == "OTHERCHAR"

MARKER_MASK_REMOVED == "MARKER_MASK_REMOVED"
MARKER_MASK_ADDED == "MARKER_MASK_ADDED"
MARKER_MASK_CHANGED == "MARKER_MASK_CHANGED"
MARKER_MASK_MOVED == "MARKER_MASK_MOVED"
MARKER_MASK_MOVED_MULTIPLE == "MARKER_MASK_MOVED_MULTIPLE"
NO_MASK == "0"

COMPARE_ERROR == "COMPARE_ERROR"
COMPARE_CANCELLED == "COMPARE_CANCELLED"
COMPARE_MATCH == "COMPARE_MATCH"
COMPARE_MISMATCH == "COMPARE_MISMATCH"

\* ------------------------------------------------------------------ helpers
At0(s, i) == s[i + 1]

Drop(s, n) == SubSeq(s, n + 1, Len(s))

\* a vector given element by element, as a sequence value
Vector(f) == f \o <<>>

\* --------------------------------------------------------- Tokenizer/Hasher
\* unsigned 32-bit values are kept as <<high 16 bits, low 16 bits>>
ZeroHash == <<0, 0>>

\* v << 7 alone: the bits that leave at the top do not come back at the bottom
SHL7(h) ==
    << (h[1] % 512) * 128 + (h[2] \div 512), (h[2] % 512) * 128 >>

\* ROL(v, 7) on a 32-bit unsigned
ROL7(h) ==
    << (h[1] % 512) * 128 + (h[2] \div 512),
       (h[2] % 512) * 128 + (h[1] \div 512) >>

\* HASH(h, c) = c + ROL(h, 7), modulo 2^32
HASH(h, c) ==
    LET r == ROL7(h)
        lo == r[2] + c
    IN  << (r[1] + (lo \div 65536)) % 65536, lo % 65536 >>

toLowerChar(c) == IF c >= 65 /\ c <= 90 THEN c + 32 ELSE c

toLowerCase(line) == Vector([i \in 1..Len(line) |-> toLowerChar(line[i])])

IsSpaceOrTab(c) == c = 32 \/ c = 9

IsCharAlphaNumericA(c) ==
    \/ c >= 48 /\ c <= 57
    \/ c >= 65 /\ c <= 90
    \/ c >= 97 /\ c <= 122

getCharType(letter) ==
    IF IsSpaceOrTab(letter) THEN SPACECHAR
    ELSE IF IsCharAlphaNumericA(letter) \/ letter = 95 THEN ALPHANUMCHAR
    ELSE OTHERCHAR

\* the hashing loop without the skip of spaces and tabs (line 154)
RECURSIVE HashCharsNoSkip(_, _, _)
HashCharsNoSkip(line, ignoreSpaces, hash) ==
    IF line = <<>> THEN hash
    ELSE HashCharsNoSkip(Tail(line), ignoreSpaces, HASH(hash, Head(line)))

\* the hashing loop of computeLineHashes over one line
RECURSIVE HashChars(_, _, _)
HashChars(line, ignoreSpaces, hash) ==
    IF line = <<>> THEN hash
    ELSE IF ignoreSpaces /\ IsSpaceOrTab(Head(line))
         THEN HashChars(Tail(line), ignoreSpaces, hash)
         ELSE HashChars(Tail(line), ignoreSpaces, HASH(hash, Head(line)))

\* lines 142-161 without the case folding of lines 149-150
LineHashNoCase(line, settings) ==
    IF Len(line) = 0 THEN ZeroHash
    ELSE HashChars(line, settings.IgnoreSpaces, ZeroHash)

LineHash(line, settings) ==
    IF Len(line) = 0 THEN ZeroHash
    ELSE HashChars(IF settings.IgnoreCase THEN toLowerCase(line) ELSE line,
                   settings.IgnoreSpaces, ZeroHash)

\* the test of lines 219 and 229 without the setting: no space word is kept
KeepNonSpace(settings, word) == word.type # SPACECHAR

\* the test of lines 219 and 229 left out: every word is kept
KeepEvery(settings, word) == TRUE

\* the word loop of getWords over one line: i is the 0-based character index
KeepWord(settings, word) == ~settings.IgnoreSpaces \/ word.type # SPACECHAR

PushWord(settings, word) == IF KeepWord(settings, word) THEN <<word>> ELSE <<>>

\* the words pushed from character i on, word being the word under construction
RECURSIVE WordScan(_, _, _, _)
WordScan(line, settings, i, word) ==
    IF i >= Len(line) THEN PushWord(settings, word)
    ELSE LET l == At0(line, i)
             newType == getCharType(l)
         IN  IF newType = word.type
             THEN WordScan(line, settings, i + 1,
                           [word EXCEPT !.length = @ + 1, !.hash = HASH(@, l)])
             ELSE PushWord(settings, word)
                  \o WordScan(line, settings, i + 1,
                              [word EXCEPT !.type = newType, !.hash = HASH(ZeroHash, l),
                                           !.pos = i, !.length = 1])

LineWords(rawLine, settings, lineNum) ==
    LET line == IF settings.IgnoreCase THEN toLowerCase(rawLine) ELSE rawLine
    IN  IF Len(line) > 0
        THEN WordScan(line, settings, 1,
                      [type |-> getCharType(line[1]), hash |-> HASH(ZeroHash, line[1]),
                       line |-> lineNum, pos |-> 0, length |-> 1])
        ELSE <<>>

\* text of document line docLineNum (0-based); a line outside the document is empty
DocLine(doc, docLineNum) ==
    IF docLineNum >= 0 /\ docLineNum < Len(doc) THEN At0(doc, docLineNum) ELSE <<>>

chunk_info(line_offset, line_count) ==
    [lineStart |-> line_offset, lineCount |-> line_count,
     lineStartWordIdx |-> Vector([i \in 1..line_count |-> 0]),
     lineEndWordIdx |-> Vector([i \in 1..line_count |-> 0]),
     lineMappings |-> Vector([i \in 1..line_count |-> -1]),
     words |-> <<>>]

RECURSIVE getWordsFrom(_, _, _, _)
getWordsFrom(doc, settings, chunk, lineNum) ==
    IF lineNum >= chunk.lineCount THEN chunk
    ELSE LET ws == LineWords(DocLine(doc, lineNum + chunk.lineStart), settings, lineNum)
             all == chunk.words \o ws
         IN  getWordsFrom(doc, settings,
                 [chunk EXCEPT !.lineStartWordIdx[lineNum + 1] = Len(chunk.words),
                               !.lineEndWordIdx[lineNum + 1] = Len(all),
                               !.words = all],
                 lineNum + 1)

getWords(doc, settings, chunk) ==
    getWordsFrom(doc, settings, [chunk EXCEPT !.words = <<>>], 0)

\* ------------------------------------------------------ Sequence Diff Engine
\* (DiffCalc and diff_info of diff.h, as the design description states them
\*  and as Engine.cpp uses them)
diff_info(type, off, len) ==
    [type |-> type, off |-> off, len |-> len,
     moves |-> Vector([i \in 1..len |-> NOT_MOVED]),
     changedLines |-> <<>>,
     matchedDiff |-> 0]

isMoved(bd, i) == IF i >= 0 /\ i < Len(bd.moves) THEN At0(bd.moves, i) ELSE NOT_MOVED

SetMax(S) == CHOOSE x \in S : \A y \in S : x >= y

\* row i of the longest-common-subsequence table, from the row below it:
\* row[j] is the LCS length of a[i..] and b[j..], 0 past the end of b; a[i]
\* is either left out or matched with some b[k], k >= j
LcsRow(ai, b, below) ==
    Vector([j \in 1..(Len(b) + 1) |->
        SetMax({below[j]} \cup {1 + below[k + 1] : k \in {k \in j..Len(b) : b[k] = ai}})])

AddRowAbove(ai, b, rowsUp) == Append(rowsUp, LcsRow(ai, b, rowsUp[Len(rowsUp)]))

\* rows i..Len(a) + 1 of the table, the last row first
RECURSIVE LcsRowsUp(_, _, _)
LcsRowsUp(a, b, i) ==
    IF i > Len(a) THEN << Vector([j \in 1..(Len(b) + 1) |-> 0]) >>
    ELSE AddRowAbove(a[i], b, LcsRowsUp(a, b, i + 1))

LcsTable(a, b) ==
    LET up == LcsRowsUp(a, b, 1)
    IN  Vector([i \in 1..Len(up) |-> up[Len(up) + 1 - i]])

\* the edit at (i, j) chosen without a look at the table: what does not match
\* is taken from the first sequence as long as it lasts
EditAtGreedy(a, b, tbl, i, j) ==
    IF i > Len(a) /\ j > Len(b) THEN "END"
    ELSE IF i <= Len(a) /\ j <= Len(b) /\ a[i] = b[j] THEN DIFF_MATCH
    ELSE IF i <= Len(a) THEN DIFF_IN_1
    ELSE DIFF_IN_2

\* the edit at (i, j): a match as early as possible, otherwise the element of
\* the first sequence goes before the element of the second
EditAt(a, b, tbl, i, j) ==
    IF i > Len(a) /\ j > Len(b) THEN "END"
    ELSE IF i <= Len(a) /\ j <= Len(b) /\ a[i] = b[j] THEN DIFF_MATCH
    ELSE IF j > Len(b) \/ (i <= Len(a) /\ tbl[i + 1][j] >= tbl[i][j + 1]) THEN DIFF_IN_1
    ELSE DIFF_IN_2

StepI(type, i, t) == IF type = DIFF_IN_2 THEN i ELSE i + t

StepJ(type, j, t) == IF type = DIFF_IN_1 THEN j ELSE j + t

\* the number of consecutive edits of the type of the edit at (i, j)
RunLength(a, b, tbl, i, j) ==
    LET type == EditAt(a, b, tbl, i, j)
    IN  SetMax({d \in 1..(Len(a) + Len(b)) :
                  \A t \in 0..(d - 1) :
                      EditAt(a, b, tbl, StepI(type, i, t), StepJ(type, j, t)) = type})

\* the run that starts at position p = <<i, j>>, none at the end
RunAt(a, b, tbl, p) ==
    LET type == EditAt(a, b, tbl, p[1], p[2])
    IN  IF type = "END" THEN <<>>
        ELSE <<diff_info(type, IF type = DIFF_IN_2 THEN p[2] - 1 ELSE p[1] - 1,
                         RunLength(a, b, tbl, p[1], p[2]))>>

\* the position behind the run that starts at p
RunEnd(a, b, tbl, p) ==
    LET type == EditAt(a, b, tbl, p[1], p[2])
    IN  IF type = "END" THEN p
        ELSE LET len == RunLength(a, b, tbl, p[1], p[2])
             IN  <<StepI(type, p[1], len), StepJ(type, p[2], len)>>

\* the runs of the edit script from position p on, three runs at a time
RECURSIVE EditWalk(_, _, _, _)
EditWalk(a, b, tbl, p) ==
    IF p[1] > Len(a) /\ p[2] > Len(b) THEN <<>>
    ELSE LET p1 == RunEnd(a, b, tbl, p)
             p2 == RunEnd(a, b, tbl, p1)
             p3 == RunEnd(a, b, tbl, p2)
         IN  RunAt(a, b, tbl, p) \o RunAt(a, b, tbl, p1) \o RunAt(a, b, tbl, p2)
             \o EditWalk(a, b, tbl, p3)

EditScript(a, b) ==
    IF a = b THEN <<>> ELSE EditWalk(a, b, LcsTable(a, b), <<1, 1>>)

\* the elements a block covers, from the sequence its side belongs to
BlockElems(a, b, bd) ==
    IF bd.type = DIFF_IN_2 THEN SubSeq(b, bd.off + 1, bd.off + bd.len)
    ELSE SubSeq(a, bd.off + 1, bd.off + bd.len)

OppositeType(type) == IF type = DIFF_IN_1 THEN DIFF_IN_2 ELSE DIFF_IN_1

MoveState(count) == IF count = 0 THEN NOT_MOVED ELSE IF count = 1 THEN MOVED ELSE MOVED_MULTIPLE

\* block-based: a whole run found as a whole run of the opposite side
BlockMoveCount(a, b, script, k) ==
    Cardinality({m \in 1..Len(script) :
        /\ script[m].type = OppositeType(script[k].type)
        /\ BlockElems(a, b, script[m]) = BlockElems(a, b, script[k])})

\* element-based: one element found anywhere in the runs of the opposite side
ElemMoveCount(a, b, script, k, e) ==
    Cardinality({<<m, n>> \in (1..Len(script)) \X (1..(Len(a) + Len(b))) :
        /\ script[m].type = OppositeType(script[k].type)
        /\ n <= script[m].len
        /\ BlockElems(a, b, script[m])[n] = e})

FindMoves(a, b, script, detectMoves) ==
    Vector([k \in 1..Len(script) |->
        IF script[k].type = DIFF_MATCH \/ detectMoves = DONT_DETECT THEN script[k]
        ELSE IF detectMoves = BLOCK_BASED
             THEN [script[k] EXCEPT !.moves =
                     Vector([n \in 1..script[k].len |->
                         MoveState(BlockMoveCount(a, b, script, k))])]
             ELSE [script[k] EXCEPT !.moves =
                     Vector([n \in 1..script[k].len |->
                         MoveState(ElemMoveCount(a, b, script, k, BlockElems(a, b, script[k])[n]))])]])

DiffCalc(a, b, detectMoves) == FindMoves(a, b, EditScript(a, b), detectMoves)

WordHashes(words) == Vector([i \in 1..Len(words) |-> words[i].hash])

\* DiffCalc<Word>(words1, words2)(): words are compared by hash, no move detection
WordDiff(words1, words2) == DiffCalc(WordHashes(words1), WordHashes(words2), DONT_DETECT)

\* ------------------------------------------------- Sub-block Offset Locator
\* number of alphanumeric words of the first sequence inside MATCH runs
CountMatchingWords(chunkDiff, words1) ==
    Cardinality({wordIdx \in 0..(Len(words1) - 1) :
        /\ At0(words1, wordIdx).type = ALPHANUMCHAR
        /\ \E i \in 1..Len(chunkDiff) :
              /\ chunkDiff[i].type = DIFF_MATCH
              /\ wordIdx >= chunkDiff[i].off
              /\ wordIdx < chunkDiff[i].off + chunkDiff[i].len})

\* score of one probed line of the longer chunk
SubChunkScore(shorterChunk, longerChunk, line) ==
    LET words2 == Drop(longerChunk.words, At0(longerChunk.lineStartWordIdx, line))
        swap == Len(shorterChunk.words) > Len(words2)
        pWords1 == IF swap THEN words2 ELSE shorterChunk.words
        pWords2 == IF swap THEN shorterChunk.words ELSE words2
    IN  CountMatchingWords(WordDiff(pWords1, pWords2), pWords1)

\* the probe loop; -2 stands for a probe that left the line table of the chunk
RECURSIVE SubChunkProbe(_, _, _, _, _, _, _)
SubChunkProbe(shorterChunk, longerChunk, endLine, step, line, bestMatchWordsCount, best) ==
    IF ~(line <= endLine /\ line # best) THEN best
    ELSE IF line < 0 THEN -2
    ELSE LET matchingWordsCount == SubChunkScore(shorterChunk, longerChunk, line)
             newStep == (step \div 2) + (step % 2)
         IN  IF bestMatchWordsCount > matchingWordsCount
             THEN SubChunkProbe(shorterChunk, longerChunk, endLine, newStep, line - newStep,
                                bestMatchWordsCount, best)
             ELSE IF matchingWordsCount = 0 THEN 0
             ELSE SubChunkProbe(shorterChunk, longerChunk, endLine, newStep, line + newStep,
                                matchingWordsCount, line)

getBestMatchingSubChunkOffset(shorterChunk, longerChunk) ==
    LET endLine == longerChunk.lineCount - shorterChunk.lineCount
    IN  IF endLine <= 0 THEN 0
        ELSE SubChunkProbe(shorterChunk, longerChunk, endLine, endLine + 1, 0, 0, -1)

\* ------------------------------------------------------------ Line Comparator
LineWordRange(chunk, line) ==
    SubSeq(chunk.words, At0(chunk.lineStartWordIdx, line) + 1, At0(chunk.lineEndWordIdx, line))

\* the Change of lines 355-356 with the offset of the change not taken off
\* the end of the last word
RunChangeToEnd(words, ld) ==
    LET first == At0(words, ld.off)
        last == At0(words, ld.off + ld.len - 1)
    IN  [off |-> first.pos, len |-> last.pos + last.length]

\* the Change of one ONLY_IN run of a line diff, over the words of its own side
RunChange(words, ld) ==
    LET first == At0(words, ld.off)
        last == At0(words, ld.off + ld.len - 1)
    IN  [off |-> first.pos, len |-> last.pos - first.pos + last.length]

\* the Changes of the runs of one type, in the order of the line diff
RunChanges(lineDiff, words, type) ==
    LET runs == SelectSeq(lineDiff, LAMBDA ld : ld.type = type)
    IN  Vector([k \in 1..Len(runs) |-> RunChange(words, runs[k])])

\* lines 336-345: the words of the longer line go second
OrderWords(words1, words2) ==
    IF Len(words1) > Len(words2)
    THEN [swap |-> TRUE, pWords1 |-> words2, pWords2 |-> words1]
    ELSE [swap |-> FALSE, pWords1 |-> words1, pWords2 |-> words2]

\* lines 353-367: the changed line of each block, from the runs of the line diff
ChangedPair(line1, line2, ow, lineDiff) ==
    IF ow.swap
    THEN << [line |-> line1, changes |-> RunChanges(lineDiff, ow.pWords2, DIFF_IN_2)],
            [line |-> line2, changes |-> RunChanges(lineDiff, ow.pWords1, DIFF_IN_1)] >>
    ELSE << [line |-> line1, changes |-> RunChanges(lineDiff, ow.pWords1, DIFF_IN_1)],
            [line |-> line2, changes |-> RunChanges(lineDiff, ow.pWords2, DIFF_IN_2)] >>

\* lines 344-345 without the test of lines 341-342 for an empty line diff
AddChangedAlways(bds, pair, lineDiff) ==
    << [bds[1] EXCEPT !.changedLines = Append(@, pair[1])],
       [bds[2] EXCEPT !.changedLines = Append(@, pair[2])] >>

\* the blocks after the changed lines of one mapped pair of lines
AddChanged(bds, pair, lineDiff) ==
    IF Len(lineDiff) = 0 THEN bds
    ELSE << [bds[1] EXCEPT !.changedLines = Append(@, pair[1])],
            [bds[2] EXCEPT !.changedLines = Append(@, pair[2])] >>

DiffWords(bds, line1, line2, ow, lineDiff) ==
    AddChanged(bds, ChangedPair(line1, line2, ow, lineDiff), lineDiff)

DiffOrdered(bds, line1, line2, ow) ==
    DiffWords(bds, line1, line2, ow, WordDiff(ow.pWords1, ow.pWords2))

\* lines 320-368 for line1 of chunk1, mapped to line2 of chunk2
CompareLinePair(bds, chunk1, chunk2, line1, line2) ==
    DiffOrdered(bds, line1, line2,
                OrderWords(LineWordRange(chunk1, line1), LineWordRange(chunk2, line2)))

\* compareLines: bds is <<blockDiff1, blockDiff2>>, the loop is at line1
RECURSIVE compareLinesFrom(_, _, _, _)
compareLinesFrom(bds, chunk1, chunk2, line1) ==
    IF line1 >= chunk1.lineCount THEN bds
    ELSE IF At0(chunk1.lineMappings, line1) = -1
         THEN compareLinesFrom(bds, chunk1, chunk2, line1 + 1)
    ELSE compareLinesFrom(
             CompareLinePair(bds, chunk1, chunk2, line1, At0(chunk1.lineMappings, line1)),
             chunk1, chunk2, line1 + 1)

compareLines(blockDiff1, blockDiff2, chunk1, chunk2) ==
    compareLinesFrom(<<blockDiff1, blockDiff2>>, chunk1, chunk2, 0)

\* ------------------------------------------------------------ Block Reconciler
\* one side of compareBlocks: the block (id 1 or 2 of the caller's pair), its
\* chunk and its start line; the pointer swaps exchange whole sides
Side(id, blockDiff, chunk) == [id |-> id, blockDiff |-> blockDiff, chunk |-> chunk, startLine |-> 0]

\* lines 380-386: the chunk of fewer lines goes first
OrderByLines(side1, side2) ==
    IF side1.chunk.lineCount > side2.chunk.lineCount THEN <<side2, side1>>
    ELSE <<side1, side2>>

\* line 388
LocateSubChunk(ps) ==
    << ps[1],
       [ps[2] EXCEPT !.startLine = getBestMatchingSubChunkOffset(ps[1].chunk, ps[2].chunk)] >>

\* lines 392-393: the words of the second chunk from its start line on
SubChunkWords(side) ==
    Drop(side.chunk.words, At0(side.chunk.lineStartWordIdx, side.startLine))

\* lines 395-419: the side of fewer words goes first
OrderByWords(ps, words1, words2) ==
    IF Len(words1) > Len(words2)
    THEN [p1 |-> ps[2], p2 |-> ps[1], words1 |-> words2, words2 |-> words1]
    ELSE [p1 |-> ps[1], p2 |-> ps[2], words1 |-> words1, words2 |-> words2]

OrderedSides(ps) == OrderByWords(ps, ps[1].chunk.words, SubChunkWords(ps[2]))

\* lines 377-419: tokenize, shorter chunk first, locate the sub-chunk, fewer words first
BlockSides(doc1, doc2, settings, blockDiff1, blockDiff2) ==
    OrderedSides(LocateSubChunk(OrderByLines(
        Side(1, blockDiff1, getWords(doc1, settings, chunk_info(blockDiff1.off, blockDiff1.len))),
        Side(2, blockDiff2, getWords(doc2, settings, chunk_info(blockDiff2.off, blockDiff2.len))))))

\* lines 430-439: the number of alphanumeric words of each line of the second chunk
line2Len(chunk2) ==
    Vector([line \in 1..chunk2.lineCount |->
        Cardinality({i \in At0(chunk2.lineStartWordIdx, line - 1)..(At0(chunk2.lineEndWordIdx, line - 1) - 1) :
                        At0(chunk2.words, i).type = ALPHANUMCHAR})])

\* the total length of the runs of one type before run i
RunsBefore(chunkDiff, i, type) ==
    Cardinality(UNION {{<<k, t>> : t \in 1..chunkDiff[k].len} :
                          k \in {k \in 1..(i - 1) : chunkDiff[k].type = type}})

\* wordOffset when the scan of the edit script reaches run i
WordOffsetAt(chunkDiff, i) ==
    RunsBefore(chunkDiff, i, DIFF_IN_2) - RunsBefore(chunkDiff, i, DIFF_IN_1)

\* line 458 without the word index of the start line
Word1AtNoStart(sides, wordIdx) == At0(sides.p1.chunk.words, wordIdx)

Word1At(sides, wordIdx) ==
    At0(sides.p1.chunk.words, wordIdx + At0(sides.p1.chunk.lineStartWordIdx, sides.p1.startLine))

Word2At(sides, wordIdx, wordOffset) ==
    At0(sides.p2.chunk.words,
        wordIdx + At0(sides.p2.chunk.lineStartWordIdx, sides.p2.startLine) + wordOffset)

\* lines 442-468: the alphanumeric words of the MATCH runs, counted per pair of lines
lineWordsMatch(sides, chunkDiff) ==
    LET wordOffset == Vector([i \in 1..Len(chunkDiff) |-> WordOffsetAt(chunkDiff, i)])
    IN
    Vector([line1 \in 1..sides.p1.chunk.lineCount |->
        Vector([line2 \in 1..sides.p2.chunk.lineCount |->
            Cardinality({<<i, wordIdx>> \in (1..Len(chunkDiff)) \X (0..(Len(sides.words1) - 1)) :
                /\ chunkDiff[i].type = DIFF_MATCH
                /\ wordIdx >= chunkDiff[i].off
                /\ wordIdx < chunkDiff[i].off + chunkDiff[i].len
                /\ Word1At(sides, wordIdx).type = ALPHANUMCHAR
                /\ Word1At(sides, wordIdx).line = line1 - 1
                /\ Word2At(sides, wordIdx, wordOffset[i]).line = line2 - 1})])])

lineConvergence(lwm, l2len, line1, line2) ==
    (At0(At0(lwm, line1), line2) * 100) \div At0(l2len, line2)

\* the threshold of line 498 set too low
MapsEnoughLow(maxConvergence) == maxConvergence >= 30

\* line 498
MapsEnough(maxConvergence) == maxConvergence >= ConvergenceThreshold

\* the scan of lines 481-495 without the test of line 484 for a moved line2
RECURSIVE ScanLine2MovedToo(_, _, _, _, _, _)
ScanLine2MovedToo(sides, lwm, l2len, line1, line2, sel) ==
    IF line2 >= sides.p2.chunk.lineCount THEN sel
    ELSE IF At0(At0(lwm, line1), line2) = 0 \/ At0(l2len, line2) = 0
         THEN ScanLine2MovedToo(sides, lwm, l2len, line1, line2 + 1, sel)
    ELSE LET conv == lineConvergence(lwm, l2len, line1, line2)
         IN  IF \/ conv > sel.maxConvergence
                \/ (conv = sel.maxConvergence /\ At0(l2len, line2) > sel.maxLine2Len)
             THEN ScanLine2MovedToo(sides, lwm, l2len, line1, line2 + 1,
                            [maxConvergence |-> conv, maxLine2Len |-> At0(l2len, line2),
                             bestMatchingLine2 |-> line2])
             ELSE ScanLine2MovedToo(sides, lwm, l2len, line1, line2 + 1, sel)

\* the scan of lines 481-495 without the second test of lines 488-489: a
\* candidate of equal convergence never replaces the selected one
RECURSIVE ScanLine2NoTie(_, _, _, _, _, _)
ScanLine2NoTie(sides, lwm, l2len, line1, line2, sel) ==
    IF line2 >= sides.p2.chunk.lineCount THEN sel
    ELSE IF \/ At0(At0(lwm, line1), line2) = 0
            \/ At0(l2len, line2) = 0
            \/ isMoved(sides.p2.blockDiff, line2) # NOT_MOVED
         THEN ScanLine2NoTie(sides, lwm, l2len, line1, line2 + 1, sel)
    ELSE LET conv == lineConvergence(lwm, l2len, line1, line2)
         IN  IF conv > sel.maxConvergence
             THEN ScanLine2NoTie(sides, lwm, l2len, line1, line2 + 1,
                            [maxConvergence |-> conv, maxLine2Len |-> At0(l2len, line2),
                             bestMatchingLine2 |-> line2])
             ELSE ScanLine2NoTie(sides, lwm, l2len, line1, line2 + 1, sel)

\* lines 481-495: the scan of the candidates of one line1; sel holds
\* maxConvergence, maxLine2Len and bestMatchingLine2
RECURSIVE ScanLine2(_, _, _, _, _, _)
ScanLine2(sides, lwm, l2len, line1, line2, sel) ==
    IF line2 >= sides.p2.chunk.lineCount THEN sel
    ELSE IF \/ At0(At0(lwm, line1), line2) = 0
            \/ At0(l2len, line2) = 0
            \/ isMoved(sides.p2.blockDiff, line2) # NOT_MOVED
         THEN ScanLine2(sides, lwm, l2len, line1, line2 + 1, sel)
    ELSE LET conv == lineConvergence(lwm, l2len, line1, line2)
         IN  IF \/ conv > sel.maxConvergence
                \/ (conv = sel.maxConvergence /\ At0(l2len, line2) > sel.maxLine2Len)
             THEN ScanLine2(sides, lwm, l2len, line1, line2 + 1,
                            [maxConvergence |-> conv, maxLine2Len |-> At0(l2len, line2),
                             bestMatchingLine2 |-> line2])
             ELSE ScanLine2(sides, lwm, l2len, line1, line2 + 1, sel)

\* the loop of lines 473-504 without the step of the cursor past a mapped line
RECURSIVE MapLinesNoAdvance(_, _, _, _, _, _)
MapLinesNoAdvance(sides, lwm, l2len, line1, bestMatchingLine2, map) ==
    IF line1 >= sides.p1.chunk.lineCount THEN map
    ELSE IF isMoved(sides.p1.blockDiff, line1) # NOT_MOVED
         THEN MapLinesNoAdvance(sides, lwm, l2len, line1 + 1, bestMatchingLine2, map)
    ELSE LET sel == ScanLine2(sides, lwm, l2len, line1, bestMatchingLine2,
                              [maxConvergence |-> 0, maxLine2Len |-> 0,
                               bestMatchingLine2 |-> bestMatchingLine2])
         IN  IF MapsEnough(sel.maxConvergence)
             THEN MapLinesNoAdvance(sides, lwm, l2len, line1 + 1, sel.bestMatchingLine2,
                           << [map[1] EXCEPT ![line1 + 1] = sel.bestMatchingLine2],
                              [map[2] EXCEPT ![sel.bestMatchingLine2 + 1] = line1] >>)
             ELSE MapLinesNoAdvance(sides, lwm, l2len, line1 + 1, sel.bestMatchingLine2, map)

\* the loop of lines 473-504 without the test of line 475 for a moved line1
RECURSIVE MapLinesMovedToo(_, _, _, _, _, _)
MapLinesMovedToo(sides, lwm, l2len, line1, bestMatchingLine2, map) ==
    IF line1 >= sides.p1.chunk.lineCount THEN map
    ELSE LET sel == ScanLine2(sides, lwm, l2len, line1, bestMatchingLine2,
                              [maxConvergence |-> 0, maxLine2Len |-> 0,
                               bestMatchingLine2 |-> bestMatchingLine2])
         IN  IF MapsEnough(sel.maxConvergence)
             THEN MapLinesMovedToo(sides, lwm, l2len, line1 + 1, sel.bestMatchingLine2 + 1,
                           << [map[1] EXCEPT ![line1 + 1] = sel.bestMatchingLine2],
                              [map[2] EXCEPT ![sel.bestMatchingLine2 + 1] = line1] >>)
             ELSE MapLinesMovedToo(sides, lwm, l2len, line1 + 1, sel.bestMatchingLine2, map)

\* the loop of lines 473-504 with every scan started at line 0 of chunk 2
RECURSIVE MapLinesFromStart(_, _, _, _, _, _)
MapLinesFromStart(sides, lwm, l2len, line1, bestMatchingLine2, map) ==
    IF line1 >= sides.p1.chunk.lineCount THEN map
    ELSE IF isMoved(sides.p1.blockDiff, line1) # NOT_MOVED
         THEN MapLinesFromStart(sides, lwm, l2len, line1 + 1, 0, map)
    ELSE LET sel == ScanLine2(sides, lwm, l2len, line1, 0,
                              [maxConvergence |-> 0, maxLine2Len |-> 0,
                               bestMatchingLine2 |-> 0])
         IN  IF MapsEnough(sel.maxConvergence)
             THEN MapLinesFromStart(sides, lwm, l2len, line1 + 1, 0,
                           << [map[1] EXCEPT ![line1 + 1] = sel.bestMatchingLine2],
                              [map[2] EXCEPT ![sel.bestMatchingLine2 + 1] = line1] >>)
             ELSE MapLinesFromStart(sides, lwm, l2len, line1 + 1, 0, map)

\* lines 473-504: map is <<lineMappings of chunk 1, lineMappings of chunk 2>>
RECURSIVE MapLines(_, _, _, _, _, _)
MapLines(sides, lwm, l2len, line1, bestMatchingLine2, map) ==
    IF line1 >= sides.p1.chunk.lineCount THEN map
    ELSE IF isMoved(sides.p1.blockDiff, line1) # NOT_MOVED
         THEN MapLines(sides, lwm, l2len, line1 + 1, bestMatchingLine2, map)
    ELSE LET sel == ScanLine2(sides, lwm, l2len, line1, bestMatchingLine2,
                              [maxConvergence |-> 0, maxLine2Len |-> 0,
                               bestMatchingLine2 |-> bestMatchingLine2])
         IN  IF MapsEnough(sel.maxConvergence)
             THEN MapLines(sides, lwm, l2len, line1 + 1, sel.bestMatchingLine2 + 1,
                           << [map[1] EXCEPT ![line1 + 1] = sel.bestMatchingLine2],
                              [map[2] EXCEPT ![sel.bestMatchingLine2 + 1] = line1] >>)
             ELSE MapLines(sides, lwm, l2len, line1 + 1, sel.bestMatchingLine2, map)

\* line 506 and the return: the caller's blocks afterwards
Reconciled(sides, lwm, l2len, pChunk1, pChunk2, bds) ==
    [ret |-> TRUE,
     blockDiff1 |-> IF sides.p1.id = 1 THEN bds[1] ELSE bds[2],
     blockDiff2 |-> IF sides.p1.id = 1 THEN bds[2] ELSE bds[1],
     pChunk1 |-> pChunk1, pChunk2 |-> pChunk2, first |-> sides.p1.id,
     lineWordsMatch |-> lwm, line2Len |-> l2len]

ReconcileChunks(sides, lwm, l2len, pChunk1, pChunk2) ==
    Reconciled(sides, lwm, l2len, pChunk1, pChunk2,
               compareLines(sides.p1.blockDiff, sides.p2.blockDiff, pChunk1, pChunk2))

ReconcileMapped(sides, lwm, l2len, map) ==
    ReconcileChunks(sides, lwm, l2len,
                    [sides.p1.chunk EXCEPT !.lineMappings = map[1]],
                    [sides.p2.chunk EXCEPT !.lineMappings = map[2]])

\* lines 470-504
ReconcileLines(sides, lwm, l2len) ==
    ReconcileMapped(sides, lwm, l2len,
        MapLines(sides, lwm, l2len, 0, 0,
                 <<sides.p1.chunk.lineMappings, sides.p2.chunk.lineMappings>>))

\* lines 423-468 without the return of lines 426-427 for an empty word diff
ReconcileDiffNoReturn(blockDiff1, blockDiff2, sides, chunkDiff) ==
    ReconcileLines(sides, lineWordsMatch(sides, chunkDiff), line2Len(sides.p2.chunk))

\* lines 423-468
ReconcileDiff(blockDiff1, blockDiff2, sides, chunkDiff) ==
    IF Len(chunkDiff) = 0
    THEN [ret |-> FALSE, blockDiff1 |-> blockDiff1, blockDiff2 |-> blockDiff2,
          pChunk1 |-> sides.p1.chunk, pChunk2 |-> sides.p2.chunk, first |-> sides.p1.id,
          lineWordsMatch |-> <<>>, line2Len |-> <<>>]
    ELSE ReconcileLines(sides, lineWordsMatch(sides, chunkDiff), line2Len(sides.p2.chunk))

ReconcileSides(blockDiff1, blockDiff2, sides) ==
    ReconcileDiff(blockDiff1, blockDiff2, sides, WordDiff(sides.words1, sides.words2))

\* compareBlocks: ret is the returned flag, blockDiff1/blockDiff2 the caller's
\* blocks afterwards, pChunk1/pChunk2 the chunks in their final roles, first
\* the id of the caller's block that ended in the first role
compareBlocks(doc1, doc2, settings, blockDiff1, blockDiff2) ==
    ReconcileSides(blockDiff1, blockDiff2,
                   BlockSides(doc1, doc2, settings, blockDiff1, blockDiff2))

\* ------------------------------------------------------------------ inputs
\* the lines "a b", "A b" and "ab"
LineSet == { <<97, 32, 98>>, <<65, 32, 98>>, <<97, 98>> }

RECURSIVE SeqsUpTo(_, _)
SeqsUpTo(S, n) ==
    IF n = 0 THEN {<<>>}
    ELSE LET shorter == SeqsUpTo(S, n - 1)
         IN  shorter \cup {Append(s, x) : s \in shorter, x \in S}

\* the document of text length 0
EmptyDoc == << <<>> >>

Documents == {EmptyDoc} \cup (SeqsUpTo(LineSet, MaxLines) \ {<<>>})

\* the settings: every folding and move detection with the old file in the
\* main view, every move detection with the old file in the sub view
UserSettings ==
    {s \in [IgnoreCase : BOOLEAN, IgnoreSpaces : BOOLEAN, DetectMoves : BOOLEAN,
            DetectMovesLineMode : BOOLEAN, OldFileViewId : {MAIN_VIEW, SUB_VIEW}] :
        /\ s.DetectMoves \/ ~s.DetectMovesLineMode
        /\ s.OldFileViewId = SUB_VIEW => ~s.IgnoreCase /\ ~s.IgnoreSpaces}

section_t(off, len) == [off |-> off, len |-> len]

Sections == {section_t(0, 0), section_t(1, 0)}

\* the sections of a compare of selections: one selected line
SelectedSections == {section_t(0, 1), section_t(1, 1)}

\* the calls of compareViews: whole documents with a progress dialog, whole
\* documents or the documents from their second line on without one, and the
\* compare of two selections under the default settings
CompareArgs ==
    {a \in [mainViewSection : Sections, subViewSection : Sections,
            settings : UserSettings, progressInfo : BOOLEAN] :
        a.progressInfo => a.mainViewSection.off = 0 /\ a.subViewSection.off = 0}
    \cup {a \in [mainViewSection : SelectedSections, subViewSection : SelectedSections,
                  settings : UserSettings, progressInfo : {FALSE}] :
            /\ ~a.settings.IgnoreCase /\ ~a.settings.IgnoreSpaces
            /\ ~a.settings.DetectMoves /\ a.settings.OldFileViewId = MAIN_VIEW}

\* ------------------------------------------------------------------- state
VARIABLES
    pc,               \* the step compareViews / runCompare / markAllDiffs is at
    args,             \* the arguments of compareViews
    docs,             \* the text of the document of each view
    progress,         \* TRUE while the progress dialog is open
    cancelled,        \* the user has asked the progress dialog to cancel
    cmpInfo,          \* CompareInfo of runCompare
    doc1LineHashes,
    doc2LineHashes,
    i,                \* the loop index of the block loops
    alignPair,
    alignmentInfo,    \* the caller's alignment list
    markers,          \* the markers and changed-text indicators set on the views
    result,
    hist,             \* what the run has done so far
    blocks            \* the call of one component on its own and what it returned

vars == <<pc, args, docs, progress, cancelled, cmpInfo, doc1LineHashes, doc2LineHashes,
          i, alignPair, alignmentInfo, markers, result, hist, blocks>>

DocCmpInfo(view, section, blockDiffMask) ==
    [view |-> view, section |-> section, blockDiffMask |-> blockDiffMask]

AlignmentViewData == [line |-> 0, diffMask |-> NO_MASK]

AlignmentPair == [main |-> AlignmentViewData, sub |-> AlignmentViewData]

NoHistory ==
    [checks |-> 0, reportedAt |-> 0, lateWork |-> FALSE, passed |-> 0,
     diffSize |-> -1, pairingDone |-> FALSE, assemblyDone |-> FALSE,
     thrown |-> "none", external |-> FALSE, escaped |-> FALSE, closed |-> 0, opened |-> 0,
     pairWrites |-> <<>>, sec1 |-> section_t(0, 0), sec2 |-> section_t(0, 0)]

NoCompareInfo ==
    [doc1 |-> DocCmpInfo(MAIN_VIEW, section_t(0, 0), NO_MASK),
     doc2 |-> DocCmpInfo(SUB_VIEW, section_t(0, 0), NO_MASK),
     diffBlocks |-> <<>>]

Init ==
    /\ pc = "compareViews"
    /\ args \in CompareArgs
    /\ docs \in [{MAIN_VIEW, SUB_VIEW} -> Documents]
    /\ progress = FALSE
    /\ cancelled = FALSE
    /\ cmpInfo = NoCompareInfo
    /\ doc1LineHashes = <<>>
    /\ doc2LineHashes = <<>>
    /\ i = 0
    /\ alignPair = AlignmentPair
    /\ alignmentInfo = <<>>
    /\ markers = {}
    /\ result = "none"
    /\ hist = NoHistory
    /\ blocks = "none"

\* ------------------------------------------------------- the progress dialog
\* a checkpoint (IsCancelled, Advance, NextPhase) reports cancellation when a
\* dialog is open and the user has cancelled it
Reports == progress /\ cancelled

\* the history after one more checkpoint
Checked(h) ==
    IF ~progress THEN h
    ELSE [h EXCEPT !.checks = @ + 1,
                   !.reportedAt = IF @ = 0 /\ cancelled THEN h.checks + 1 ELSE @]

\* the history after a phase has done work
Worked(h) == [h EXCEPT !.lateWork = @ \/ h.reportedAt # 0]

\* the user presses Cancel on the open dialog
Cancel ==
    /\ progress
    /\ ~cancelled
    /\ cancelled' = TRUE
    /\ UNCHANGED <<pc, args, docs, progress, cmpInfo, doc1LineHashes, doc2LineHashes,
                   i, alignPair, alignmentInfo, markers, result, hist, blocks>>

\* ------------------------------------------------------------- compareViews
InitialResult == COMPARE_ERROR

\* lines 837-840 and 704-725: the result starts as ERROR, the dialog opens
\* when a title is given, runCompare sets up the two documents
EnterCompare ==
    /\ pc = "compareViews"
    /\ result' = InitialResult
    /\ progress' = args.progressInfo
    /\ cmpInfo' =
         [doc1 |-> DocCmpInfo(MAIN_VIEW, args.mainViewSection,
                      IF args.settings.OldFileViewId = MAIN_VIEW
                      THEN MARKER_MASK_REMOVED ELSE MARKER_MASK_ADDED),
          doc2 |-> DocCmpInfo(SUB_VIEW, args.subViewSection,
                      IF args.settings.OldFileViewId = MAIN_VIEW
                      THEN MARKER_MASK_ADDED ELSE MARKER_MASK_REMOVED),
          diffBlocks |-> <<>>]
    /\ hist' = [hist EXCEPT !.opened = IF args.progressInfo THEN 1 ELSE 0]
    /\ pc' = "hash1"
    /\ UNCHANGED <<args, docs, cancelled, doc1LineHashes, doc2LineHashes, i, alignPair,
                   alignmentInfo, markers, blocks>>

\* -------------------------------------------------------- computeLineHashes
\* lines 124-127
LineCount(text) == IF text = EmptyDoc THEN 0 ELSE Len(text)

\* lines 129-130
SectionLen(section, lineCount) ==
    IF section.len <= 0 \/ section.off + section.len > lineCount
    THEN lineCount - section.off
    ELSE section.len

\* line 136: the lines before which the dialog is polled
PolledLines(len) == {lineNum \in 0..(len - 1) : lineNum % monitorCancelEachXLine = 0}

\* computeLineHashes reading the lines from the start of the document, not
\* from the start of the section (lines 139-140 without doc.section.off)
computeLineHashesNoOff(doc, text, settings) ==
    LET len == SectionLen(doc.section, LineCount(text))
        polled == progress /\ PolledLines(len) # {}
    IN  [section |-> [doc.section EXCEPT !.len = len],
         throws |-> len < 0,
         polled |-> polled,
         lineHashes |->
            IF len < 0 \/ (polled /\ cancelled) THEN <<>>
            ELSE Vector([lineNum \in 1..len |->
                    LineHash(DocLine(text, lineNum - 1), settings)])]

\* the section afterwards, whether the vector of a negative size made the
\* allocation throw, whether a poll took place, and the returned hashes
computeLineHashes(doc, text, settings) ==
    LET len == SectionLen(doc.section, LineCount(text))
        polled == progress /\ PolledLines(len) # {}
    IN  [section |-> [doc.section EXCEPT !.len = len],
         throws |-> len < 0,
         polled |-> polled,
         lineHashes |->
            IF len < 0 \/ (polled /\ cancelled) THEN <<>>
            ELSE Vector([lineNum \in 1..len |->
                    LineHash(DocLine(text, lineNum - 1 + doc.section.off), settings)])]

\* getText is called for a non-empty line of the section, unless a poll ends the loop
ReadsText(doc, text) ==
    LET len == SectionLen(doc.section, LineCount(text))
    IN  /\ ~Reports
        /\ \E lineNum \in 0..(len - 1) : DocLine(text, lineNum + doc.section.off) # <<>>

\* lines 727 and 732
HashDoc(at, next) ==
    /\ pc = at
    /\ LET doc == IF at = "hash1" THEN cmpInfo.doc1 ELSE cmpInfo.doc2
           r == computeLineHashes(doc, docs[doc.view], args.settings)
       IN  /\ cmpInfo' = IF at = "hash1" THEN [cmpInfo EXCEPT !.doc1.section = r.section]
                                         ELSE [cmpInfo EXCEPT !.doc2.section = r.section]
           /\ doc1LineHashes' = IF at = "hash1" THEN r.lineHashes ELSE doc1LineHashes
           /\ doc2LineHashes' = IF at = "hash2" THEN r.lineHashes ELSE doc2LineHashes
           /\ hist' = IF r.throws THEN [hist EXCEPT !.thrown = "std"]
                      ELSE IF r.polled THEN Checked(hist) ELSE hist
           /\ pc' = IF r.throws THEN "catch" ELSE next
    /\ UNCHANGED <<args, docs, progress, cancelled, i, alignPair, alignmentInfo,
                   markers, result, blocks>>

HashDoc1 == HashDoc("hash1", "advance1")

HashDoc2 == HashDoc("hash2", "advance2")

\* lines 729-730 and 734-735 with the value Advance returns ignored
AdvanceUnchecked(at, next) ==
    /\ pc = at
    /\ hist' = Checked(hist)
    /\ result' = result
    /\ pc' = next
    /\ UNCHANGED <<args, docs, progress, cancelled, cmpInfo, doc1LineHashes, doc2LineHashes,
                   i, alignPair, alignmentInfo, markers, blocks>>

\* lines 729-730 and 734-735
AdvanceAfterHash(at, next) ==
    /\ pc = at
    /\ hist' = IF Reports THEN Checked(hist) ELSE [Checked(hist) EXCEPT !.passed = @ + 1]
    /\ result' = IF Reports THEN COMPARE_CANCELLED ELSE result
    /\ pc' = IF Reports THEN "close" ELSE next
    /\ UNCHANGED <<args, docs, progress, cancelled, cmpInfo, doc1LineHashes, doc2LineHashes,
                   i, alignPair, alignmentInfo, markers, blocks>>

Advance1 == AdvanceAfterHash("advance1", "hash2")

Advance2 == AdvanceAfterHash("advance2", "diff")

\* ---------------------------------------------------------------- runCompare
\* line 740: the shorter vector of hashes goes first
SwapsDocs(hashes1, hashes2) == Len(hashes1) > Len(hashes2)

\* lines 746-747
detectMovesOf(settings) ==
    IF ~settings.DetectMoves THEN DONT_DETECT
    ELSE IF settings.DetectMovesLineMode THEN ELEMENT_BASED ELSE BLOCK_BASED

\* the requirement of line 760 asked of both sections
InsertsBlankLineBoth(diffBlocks, doc1, doc2) ==
    /\ diffBlocks[1].type # DIFF_MATCH
    /\ (doc1.section.off = 0 /\ doc2.section.off = 0)

\* lines 759-760
InsertsBlankLine(diffBlocks, doc1, doc2) ==
    /\ diffBlocks[1].type # DIFF_MATCH
    /\ (doc1.section.off = 0 \/ doc2.section.off = 0)

\* SCI_INSERTTEXT at position 0 of "\n"
InsertBlankLine(text) == << <<>> >> \o text

\* lines 784-787 with the offset of the first document for every block
ShiftedOffOfDoc1(bd, off1, off2) == bd.off + off1

\* lines 784-787
ShiftedOff(bd, off1, off2) ==
    IF bd.type = DIFF_IN_1 \/ bd.type = DIFF_MATCH THEN bd.off + off1
    ELSE IF bd.type = DIFF_IN_2 THEN bd.off + off2
    ELSE bd.off

\* lines 780-789
ShiftOffsets(diffBlocks, off1, off2) ==
    IF off1 # 0 \/ off2 # 0
    THEN Vector([k \in 1..Len(diffBlocks) |->
            [diffBlocks[k] EXCEPT !.off = ShiftedOff(diffBlocks[k], off1, off2)]])
    ELSE diffBlocks

\* line 753 with a list of one block taken for no difference
NoDifferenceUpToOne(diffBlocks) == Len(diffBlocks) <= 1

\* line 753
NoDifference(diffBlocks) == Len(diffBlocks) = 0

\* lines 737-749: the documents in their final order and their line diff
DiffInput ==
    LET swap == SwapsDocs(doc1LineHashes, doc2LineHashes)
        pLineHashes1 == IF swap THEN doc2LineHashes ELSE doc1LineHashes
        pLineHashes2 == IF swap THEN doc1LineHashes ELSE doc2LineHashes
    IN  [doc1 |-> IF swap THEN cmpInfo.doc2 ELSE cmpInfo.doc1,
         doc2 |-> IF swap THEN cmpInfo.doc1 ELSE cmpInfo.doc2,
         diffBlocks |-> DiffCalc(pLineHashes1, pLineHashes2, detectMovesOf(args.settings))]

\* lines 751-760: a blank line is put in front of both documents
BlankLine(d) ==
    ~NoDifference(d.diffBlocks) /\ InsertsBlankLine(d.diffBlocks, d.doc1, d.doc2)

\* lines 751-789 for the documents and the line diff d
LineDiffStep(d) ==
    LET doc1 == d.doc1
        doc2 == d.doc2
        diffBlocks == d.diffBlocks
        blank == BlankLine(d)
        off1 == IF blank THEN doc1.section.off + 1 ELSE doc1.section.off
        off2 == IF blank THEN doc2.section.off + 1 ELSE doc2.section.off
        sec1 == [doc1.section EXCEPT !.off = off1]
        sec2 == [doc2.section EXCEPT !.off = off2]
    IN  IF NoDifference(diffBlocks)
        THEN /\ cmpInfo' = [doc1 |-> doc1, doc2 |-> doc2, diffBlocks |-> diffBlocks]
             /\ docs' = docs
             /\ result' = COMPARE_MATCH
             /\ hist' = [Worked(hist) EXCEPT !.diffSize = Len(diffBlocks),
                                             !.sec1 = doc1.section, !.sec2 = doc2.section]
             /\ pc' = "close"
        ELSE /\ cmpInfo' = [doc1 |-> [doc1 EXCEPT !.section = sec1],
                            doc2 |-> [doc2 EXCEPT !.section = sec2],
                            diffBlocks |-> ShiftOffsets(diffBlocks, off1, off2)]
             /\ docs' = IF blank
                        THEN [v \in {MAIN_VIEW, SUB_VIEW} |-> InsertBlankLine(docs[v])]
                        ELSE docs
             /\ result' = result
             /\ hist' = [Worked(hist) EXCEPT !.diffSize = Len(diffBlocks),
                             !.sec1 = sec1, !.sec2 = sec2,
                             !.pairWrites = Vector([k \in 1..Len(diffBlocks) |-> 0])]
             /\ pc' = "phase1"

\* lines 737-789
LineDiff ==
    /\ pc = "diff"
    /\ LineDiffStep(DiffInput)
    /\ UNCHANGED <<args, progress, cancelled, doc1LineHashes, doc2LineHashes, i, alignPair,
                   alignmentInfo, markers, blocks>>

\* lines 791-795
NextPhase1 ==
    /\ pc = "phase1"
    /\ hist' = Checked(hist)
    /\ result' = IF Reports THEN COMPARE_CANCELLED ELSE result
    /\ pc' = IF Reports THEN "close" ELSE "blocks"
    /\ i' = 0
    /\ UNCHANGED <<args, docs, progress, cancelled, cmpInfo, doc1LineHashes, doc2LineHashes,
                   alignPair, alignmentInfo, markers, blocks>>

\* lines 800-802 without the test of line 808 for the type of the block before
IsPairAnyBefore(diffBlocks, n) ==
    /\ At0(diffBlocks, n).type = DIFF_IN_2
    /\ n > 0

\* lines 800-808: block n (0-based) is the second block of a pair
IsPair(diffBlocks, n) ==
    /\ At0(diffBlocks, n).type = DIFF_IN_2
    /\ n > 0
    /\ At0(diffBlocks, n - 1).type = DIFF_IN_1

\* lines 810-811 without the back reference
PairBlocksOneWay(diffBlocks, n) ==
    [diffBlocks EXCEPT ![n].matchedDiff = n + 1]

\* lines 810-811; matchedDiff holds the place of the pointed block in the
\* list, counted from 1, and 0 for the null pointer
PairBlocks(diffBlocks, n) ==
    [diffBlocks EXCEPT ![n].matchedDiff = n + 1, ![n + 1].matchedDiff = n]

\* lines 810-813 for the pair that ends at block n (0-based)
ReconcilePair(info, texts, settings, n) ==
    LET paired == PairBlocks(info.diffBlocks, n)
        r == compareBlocks(texts[info.doc1.view], texts[info.doc2.view], settings,
                           paired[n], paired[n + 1])
    IN  [paired EXCEPT ![n] = r.blockDiff1, ![n + 1] = r.blockDiff2]

\* lines 798-820: one turn of the loop of block compares
CompareBlock ==
    /\ pc = "blocks"
    /\ i < Len(cmpInfo.diffBlocks)
    /\ LET pair == IsPair(cmpInfo.diffBlocks, i)
       IN  /\ cmpInfo' = IF pair
                         THEN [cmpInfo EXCEPT !.diffBlocks =
                                  ReconcilePair(cmpInfo, docs, args.settings, i)]
                         ELSE cmpInfo
           /\ hist' = LET h == Checked(Worked(hist))
                          w == IF pair
                               THEN [h EXCEPT !.pairWrites[i] = @ + 1,
                                              !.pairWrites[i + 1] = @ + 1]
                               ELSE h
                      IN  [w EXCEPT !.pairingDone = ~Reports /\ i + 1 >= Len(cmpInfo.diffBlocks)]
    /\ result' = IF Reports THEN COMPARE_CANCELLED ELSE result
    /\ pc' = IF Reports THEN "close"
             ELSE IF i + 1 < Len(cmpInfo.diffBlocks) THEN "blocks" ELSE "phase2"
    /\ i' = IF Reports THEN i ELSE i + 1
    /\ UNCHANGED <<args, docs, progress, cancelled, doc1LineHashes, doc2LineHashes,
                   alignPair, alignmentInfo, markers, blocks>>

\* lines 822-823
NextPhase2 ==
    /\ pc = "phase2"
    /\ hist' = Checked(hist)
    /\ result' = IF Reports THEN COMPARE_CANCELLED ELSE result
    /\ pc' = IF Reports THEN "close" ELSE "markAllDiffs"
    /\ UNCHANGED <<args, docs, progress, cancelled, cmpInfo, doc1LineHashes, doc2LineHashes,
                   i, alignPair, alignmentInfo, markers, blocks>>

\* --------------------------------------------------------------- markAllDiffs
\* SCI_MARKERADDSET on a line of a view
Marker(view, line, mask) ==
    [view |-> view, line |-> line, mask |-> mask, off |-> 0, len |-> 0]

\* markTextAsChanged on len characters from off on in a line of a view
ChangedText(view, line, off, len) ==
    [view |-> view, line |-> line, mask |-> "CHANGED_TEXT", off |-> off, len |-> len]

\* lines 518-520
SectionMask(bd, n, doc) ==
    IF isMoved(bd, n) = NOT_MOVED THEN doc.blockDiffMask
    ELSE IF isMoved(bd, n) = MOVED THEN MARKER_MASK_MOVED
    ELSE MARKER_MASK_MOVED_MULTIPLE

\* markSection: the markers it adds
markSection(bd, doc) ==
    {Marker(doc.view, bd.off + n, SectionMask(bd, n, doc)) :
        n \in doc.section.off..(doc.section.off + doc.section.len - 1)}

\* markLineDiffs: the markers it adds; md is the block bd.matchedDiff points to
markLineDiffs(view1, view2, bd, md, lineIdx) ==
    LET cl1 == At0(bd.changedLines, lineIdx)
        cl2 == At0(md.changedLines, lineIdx)
    IN  {ChangedText(view1, bd.off + cl1.line, cl1.changes[c].off, cl1.changes[c].len) :
            c \in 1..Len(cl1.changes)}
        \cup {Marker(view1, bd.off + cl1.line, MARKER_MASK_CHANGED)}
        \cup {ChangedText(view2, md.off + cl2.line, cl2.changes[c].off, cl2.changes[c].len) :
                c \in 1..Len(cl2.changes)}
        \cup {Marker(view2, md.off + cl2.line, MARKER_MASK_CHANGED)}

\* lines 560-561 without the swap of lines 564-565
pMainAlignDataNoSwap(info) == "main"

\* lines 560-565: the member of alignPair that pMainAlignData points to
pMainAlignData(info) == IF info.doc1.view = SUB_VIEW THEN "sub" ELSE "main"

pSubAlignData(info) == IF info.doc1.view = SUB_VIEW THEN "main" ELSE "sub"

\* the state markAllDiffs works on: the two documents of cmpInfo, alignPair,
\* alignmentInfo and the markers of the views
push_back(st) == [st EXCEPT !.alignmentInfo = Append(@, st.alignPair)]

SetMasks(st, mask1, mask2) ==
    [st EXCEPT !.alignPair[pMainAlignData(st)].diffMask = mask1,
               !.alignPair[pSubAlignData(st)].diffMask = mask2]

\* lines 608-629 and 645-666 without lines 620 and 657: the line of the view
\* of doc1 is not moved over the lines of doc1 up to the next changed line
MarkUnchangedNoAdvance(st, bd, md, len1, len2) ==
    LET s1 == [st EXCEPT !.doc1.section.len = len1, !.doc2.section.len = len2]
        s2 == IF len1 # 0 \/ len2 # 0
              THEN push_back(SetMasks(s1, s1.doc1.blockDiffMask, s1.doc2.blockDiffMask))
              ELSE s1
        s3 == IF len1 # 0
              THEN [s2 EXCEPT !.markers = @ \cup markSection(bd, s2.doc1)]
              ELSE s2
    IN  IF len2 # 0
        THEN [s3 EXCEPT !.markers = @ \cup markSection(md, s3.doc2),
                        !.alignPair[pSubAlignData(st)].line = @ + len2]
        ELSE s3

\* lines 608-629 and 645-666: the lines of a pair up to the next changed line
MarkUnchanged(st, bd, md, len1, len2) ==
    LET s1 == [st EXCEPT !.doc1.section.len = len1, !.doc2.section.len = len2]
        s2 == IF len1 # 0 \/ len2 # 0
              THEN push_back(SetMasks(s1, s1.doc1.blockDiffMask, s1.doc2.blockDiffMask))
              ELSE s1
        s3 == IF len1 # 0
              THEN [s2 EXCEPT !.markers = @ \cup markSection(bd, s2.doc1),
                              !.alignPair[pMainAlignData(st)].line = @ + len1]
              ELSE s2
    IN  IF len2 # 0
        THEN [s3 EXCEPT !.markers = @ \cup markSection(md, s3.doc2),
                        !.alignPair[pSubAlignData(st)].line = @ + len2]
        ELSE s3

\* lines 606-643: the loop over the changed lines of a pair, at j
RECURSIVE MarkChangedLines(_, _, _, _)
MarkChangedLines(st, bd, md, j) ==
    IF j >= Len(bd.changedLines) THEN st
    ELSE LET line1 == At0(bd.changedLines, j).line
             line2 == At0(md.changedLines, j).line
             s1 == MarkUnchanged(st, bd, md, line1 - st.doc1.section.off,
                                 line2 - st.doc2.section.off)
             s2 == push_back(SetMasks(s1, MARKER_MASK_CHANGED, MARKER_MASK_CHANGED))
         IN  MarkChangedLines(
                 [s2 EXCEPT !.markers = @ \cup markLineDiffs(s2.doc1.view, s2.doc2.view, bd, md, j),
                            !.doc1.section.off = line1 + 1,
                            !.doc2.section.off = line2 + 1,
                            !.alignPair[pMainAlignData(st)].line = @ + 1,
                            !.alignPair[pSubAlignData(st)].line = @ + 1],
                 bd, md, j + 1)

\* lines 599-669 without lines 603-604: the section offsets are not set to 0
MarkPairNoReset(st, bd, md) ==
    LET s1 == MarkChangedLines(st, bd, md, 0)
    IN  MarkUnchanged(s1, bd, md, bd.len - s1.doc1.section.off, md.len - s1.doc2.section.off)

\* lines 599-669: a pair of blocks
MarkPair(st, bd, md) ==
    LET s1 == MarkChangedLines([st EXCEPT !.doc1.section.off = 0, !.doc2.section.off = 0],
                               bd, md, 0)
    IN  MarkUnchanged(s1, bd, md, bd.len - s1.doc1.section.off, md.len - s1.doc2.section.off)

\* lines 572-688: one turn of the loop, for block n (0-based); next is the
\* value of the loop index for the turn after it
MarkTurn(st, diffBlocks, n) ==
    LET bd == At0(diffBlocks, n)
        k1 == pMainAlignData(st)
        k2 == pSubAlignData(st)
        s ==
          IF bd.type = DIFF_MATCH
          THEN [push_back(SetMasks(st, NO_MASK, NO_MASK)) EXCEPT
                    !.alignPair[k1].line = @ + bd.len,
                    !.alignPair[k2].line = @ + bd.len]
          ELSE IF bd.type = DIFF_IN_2
          THEN LET s1 == [st EXCEPT !.doc2.section = section_t(0, bd.len)]
                   s2 == [s1 EXCEPT !.markers = @ \cup markSection(bd, s1.doc2)]
               IN  [push_back(SetMasks(s2, NO_MASK, s2.doc2.blockDiffMask)) EXCEPT
                        !.alignPair[k2].line = @ + bd.len]
          ELSE IF bd.matchedDiff # 0
          THEN [MarkPair(st, bd, diffBlocks[bd.matchedDiff]) EXCEPT !.next = n + 2]
          ELSE LET s1 == [st EXCEPT !.doc1.section = section_t(0, bd.len)]
                   s2 == [s1 EXCEPT !.markers = @ \cup markSection(bd, s1.doc1)]
               IN  [push_back(SetMasks(s2, s2.doc1.blockDiffMask, NO_MASK)) EXCEPT
                        !.alignPair[k1].line = @ + bd.len]
    IN  push_back(SetMasks(s, NO_MASK, NO_MASK))

MarkState(n) ==
    [doc1 |-> cmpInfo.doc1, doc2 |-> cmpInfo.doc2, alignPair |-> alignPair,
     alignmentInfo |-> alignmentInfo, markers |-> markers, next |-> n + 1]

\* lines 549-568
MarkBegin ==
    /\ pc = "markAllDiffs"
    /\ alignmentInfo' = <<>>
    /\ alignPair' = [AlignmentPair EXCEPT
                        ![pMainAlignData(cmpInfo)].line = cmpInfo.doc1.section.off,
                        ![pSubAlignData(cmpInfo)].line = cmpInfo.doc2.section.off]
    /\ i' = 0
    /\ hist' = Worked(hist)
    /\ pc' = "mark"
    /\ UNCHANGED <<args, docs, progress, cancelled, cmpInfo, doc1LineHashes, doc2LineHashes,
                   markers, result, blocks>>

\* lines 570-692: one turn of the loop and its Advance
MarkBlock ==
    /\ pc = "mark"
    /\ i < Len(cmpInfo.diffBlocks)
    /\ LET st == MarkTurn(MarkState(i), cmpInfo.diffBlocks, i)
       IN  /\ cmpInfo' = [cmpInfo EXCEPT !.doc1 = st.doc1, !.doc2 = st.doc2]
           /\ alignPair' = st.alignPair
           /\ alignmentInfo' = st.alignmentInfo
           /\ markers' = st.markers
           /\ i' = IF Reports THEN i ELSE st.next
           /\ pc' = IF Reports THEN "close"
                    ELSE IF st.next < Len(cmpInfo.diffBlocks) THEN "mark" ELSE "phase3"
    /\ hist' = Checked(Worked(hist))
    /\ result' = IF Reports THEN COMPARE_CANCELLED ELSE result
    /\ UNCHANGED <<args, docs, progress, cancelled, doc1LineHashes, doc2LineHashes, blocks>>

\* lines 694-697 and 825-828
NextPhase3 ==
    /\ pc = "phase3"
    /\ hist' = [Checked(hist) EXCEPT !.assemblyDone = ~Reports]
    /\ result' = IF Reports THEN COMPARE_CANCELLED ELSE COMPARE_MISMATCH
    /\ pc' = "close"
    /\ UNCHANGED <<args, docs, progress, cancelled, cmpInfo, doc1LineHashes, doc2LineHashes,
                   i, alignPair, alignmentInfo, markers, blocks>>

\* line 845 and the return of line 862
CloseProgress ==
    /\ pc = "close"
    /\ progress' = FALSE
    /\ hist' = [hist EXCEPT !.closed = @ + 1]
    /\ pc' = "done"
    /\ UNCHANGED <<args, docs, cancelled, cmpInfo, doc1LineHashes, doc2LineHashes,
                   i, alignPair, alignmentInfo, markers, result, blocks>>

\* ------------------------------------------------------------------ exceptions
\* the steps that allocate or read text: getText in the hashing loop,
\* DiffCalc, getWords and DiffCalc in compareBlocks, push_back in markAllDiffs
CanThrow ==
    \/ pc = "hash1" /\ ReadsText(cmpInfo.doc1, docs[cmpInfo.doc1.view])
    \/ pc = "hash2" /\ ReadsText(cmpInfo.doc2, docs[cmpInfo.doc2.view])
    \/ pc = "diff"
    \/ pc = "blocks" /\ i < Len(cmpInfo.diffBlocks) /\ IsPair(cmpInfo.diffBlocks, i)
    \/ pc = "mark"

\* a step of runCompare throws, the text layer or an allocation having failed:
\* a std::exception or anything else
Throw ==
    /\ CanThrow
    /\ \E kind \in {"std", "unknown"} :
           hist' = [hist EXCEPT !.thrown = kind, !.external = TRUE]
    /\ pc' = "catch"
    /\ UNCHANGED <<args, docs, progress, cancelled, cmpInfo, doc1LineHashes, doc2LineHashes,
                   i, alignPair, alignmentInfo, markers, result, blocks>>

\* the handler of line 847 alone
IsCaughtStd(kind) == kind = "std"

\* lines 847 and 855: the handlers of compareViews take every exception
IsCaught(kind) == kind = "std" \/ kind = "unknown"

\* lines 847-862
Catch ==
    /\ pc = "catch"
    /\ IF IsCaught(hist.thrown)
       THEN /\ progress' = FALSE
            /\ hist' = [hist EXCEPT !.closed = @ + 1]
            /\ result' = result
       ELSE /\ progress' = progress
            /\ hist' = [hist EXCEPT !.escaped = TRUE]
            /\ result' = "none"
    /\ pc' = "done"
    /\ UNCHANGED <<args, docs, cancelled, cmpInfo, doc1LineHashes, doc2LineHashes,
                   i, alignPair, alignmentInfo, markers, blocks>>

Next ==
    \/ EnterCompare
    \/ HashDoc1
    \/ Advance1
    \/ HashDoc2
    \/ Advance2
    \/ LineDiff
    \/ NextPhase1
    \/ CompareBlock
    \/ NextPhase2
    \/ MarkBegin
    \/ MarkBlock
    \/ NextPhase3
    \/ CloseProgress
    \/ Cancel
    \/ Throw
    \/ Catch

Spec == Init /\ [][Next]_vars

\* ------------------------------------- the compare with the save points
\* blocks holds, for each view, what SCI_GETMODIFY answers: TRUE for a
\* document changed since its save point
SavePointArgs ==
    {a \in CompareArgs :
        /\ ~a.settings.IgnoreCase /\ ~a.settings.IgnoreSpaces
        /\ ~a.settings.DetectMoves /\ a.settings.OldFileViewId = MAIN_VIEW}

InitSavePoint ==
    /\ pc = "compareViews"
    /\ args \in SavePointArgs
    /\ docs \in [{MAIN_VIEW, SUB_VIEW} -> Documents]
    /\ progress = FALSE
    /\ cancelled = FALSE
    /\ cmpInfo = NoCompareInfo
    /\ doc1LineHashes = <<>>
    /\ doc2LineHashes = <<>>
    /\ i = 0
    /\ alignPair = AlignmentPair
    /\ alignmentInfo = <<>>
    /\ markers = {}
    /\ result = "none"
    /\ hist = NoHistory
    /\ blocks \in [{MAIN_VIEW, SUB_VIEW} -> BOOLEAN]

\* lines 766-768 and 770-772 for a document whose SCI_GETMODIFY answered
\* modified: the text put in changes the document, a document that was at its
\* save point gets a new save point
InsertAtSavePoint(modified) == IF ~modified THEN FALSE ELSE TRUE

\* lines 737-789 with the save points
LineDiffSavePoint ==
    /\ pc = "diff"
    /\ LineDiffStep(DiffInput)
    /\ blocks' = IF BlankLine(DiffInput)
                 THEN [v \in {MAIN_VIEW, SUB_VIEW} |-> InsertAtSavePoint(blocks[v])]
                 ELSE blocks
    /\ UNCHANGED <<args, progress, cancelled, doc1LineHashes, doc2LineHashes, i, alignPair,
                   alignmentInfo, markers>>

NextSavePoint ==
    \/ EnterCompare
    \/ HashDoc1
    \/ Advance1
    \/ HashDoc2
    \/ Advance2
    \/ LineDiffSavePoint
    \/ NextPhase1
    \/ CompareBlock
    \/ NextPhase2
    \/ MarkBegin
    \/ MarkBlock
    \/ NextPhase3
    \/ CloseProgress
    \/ Cancel
    \/ Throw
    \/ Catch

SpecSavePoint == InitSavePoint /\ [][NextSavePoint]_vars

\* ------------------------------------------------- compareBlocks on its own
\* the lines "a b", "a c", "a b c" and "c"
BlockLineSet == { <<97, 32, 98>>, <<97, 32, 99>>, <<97, 32, 98, 32, 99>>, <<99>> }

BlockDocuments == SeqsUpTo(BlockLineSet, MaxBlockLines) \ {<<>>}

BlockSettings ==
    {s \in UserSettings : ~s.IgnoreCase /\ ~s.DetectMoves /\ s.OldFileViewId = MAIN_VIEW}

\* the block of a side: the whole document, with one of its first two lines
\* MOVED or MOVED_MULTIPLE when moved names the side (1 or 2), the line and
\* the mark
MovedBlock(type, text, id, moved) ==
    [diff_info(type, 0, Len(text)) EXCEPT
        !.moves = Vector([n \in 1..Len(text) |->
                     IF moved[1] = id /\ moved[2] = n - 1 THEN moved[3] ELSE NOT_MOVED])]

\* the lines "foo bar" and "foo baz"
FooBar == <<102, 111, 111, 32, 98, 97, 114>>

FooBaz == <<102, 111, 111, 32, 98, 97, 122>>

\* the pairs of documents: all over the lines above, "foo bar" with "foo baz",
\* "a b c" with the two lines "a x", "b c y z", "a b" with the two lines
\* "a x", "b y", and the three lines "a", "a b x y", "a c" with the three
\* lines "a", "a b", "a b c"
BlockDocumentPairs ==
    (BlockDocuments \X BlockDocuments)
    \cup {<< <<FooBar>>, <<FooBaz>> >>,
          << <<<<97, 32, 98, 32, 99>>>>,
             << <<97, 32, 120>>, <<98, 32, 99, 32, 121, 32, 122>> >> >>,
          << <<<<97, 32, 98>>>>, << <<97, 32, 120>>, <<98, 32, 121>> >> >>,
          << << <<97>>, <<97, 32, 98, 32, 120, 32, 121>>, <<97, 32, 99>> >>,
             << <<97>>, <<97, 32, 98>>, <<97, 32, 98, 32, 99>> >> >>}

BlockCalls ==
    {[doc1 |-> d[1], doc2 |-> d[2], settings |-> s,
      blockDiff1 |-> MovedBlock(DIFF_IN_1, d[1], 1, m),
      blockDiff2 |-> MovedBlock(DIFF_IN_2, d[2], 2, m),
      state |-> "call", ret |-> "none"] :
        d \in BlockDocumentPairs,
        <<s, m>> \in (BlockSettings \X {<<0, 0, NOT_MOVED>>})
                     \cup ({s \in BlockSettings : ~s.IgnoreSpaces}
                           \X ({1, 2} \X {0, 1} \X {MOVED, MOVED_MULTIPLE}))}

InitBlocks ==
    /\ pc = "compareBlocks"
    /\ args = CHOOSE a \in CompareArgs : TRUE
    /\ docs = [v \in {MAIN_VIEW, SUB_VIEW} |-> EmptyDoc]
    /\ progress = FALSE
    /\ cancelled = FALSE
    /\ cmpInfo = NoCompareInfo
    /\ doc1LineHashes = <<>>
    /\ doc2LineHashes = <<>>
    /\ i = 0
    /\ alignPair = AlignmentPair
    /\ alignmentInfo = <<>>
    /\ markers = {}
    /\ result = "none"
    /\ hist = NoHistory
    /\ blocks \in BlockCalls

\* compareBlocks is called and returns
CallCompareBlocks ==
    /\ pc = "compareBlocks"
    /\ blocks.state = "call"
    /\ blocks' = [blocks EXCEPT !.state = "returned",
                     !.ret = compareBlocks(blocks.doc1, blocks.doc2, blocks.settings,
                                           blocks.blockDiff1, blocks.blockDiff2)]
    /\ UNCHANGED <<pc, args, docs, progress, cancelled, cmpInfo, doc1LineHashes,
                   doc2LineHashes, i, alignPair, alignmentInfo, markers, result, hist>>

NextBlocks == CallCompareBlocks

SpecBlocks == InitBlocks /\ [][NextBlocks]_vars

\* ------------------------------------------- compares of documents with moves
\* the lines "a b", "a c" and "c"
MoveLineSet == { <<97, 32, 98>>, <<97, 32, 99>>, <<99>> }

\* documents of two or more lines, no line twice
MoveDocuments ==
    {d \in SeqsUpTo(MoveLineSet, MaxMoveLines) :
        Len(d) >= 2 /\ \A m \in 1..Len(d) : \A n \in 1..Len(d) : d[m] = d[n] => m = n}

\* whole documents, no folding, every move detection; a progress dialog with
\* the block-based one
MoveArgs ==
    {a \in CompareArgs :
        /\ a.mainViewSection = section_t(0, 0) /\ a.subViewSection = section_t(0, 0)
        /\ ~a.settings.IgnoreCase /\ ~a.settings.IgnoreSpaces
        /\ a.settings.OldFileViewId = MAIN_VIEW
        /\ a.progressInfo => detectMovesOf(a.settings) = BLOCK_BASED}

InitMoves ==
    /\ pc = "compareViews"
    /\ args \in MoveArgs
    /\ docs \in [{MAIN_VIEW, SUB_VIEW} -> MoveDocuments]
    /\ progress = FALSE
    /\ cancelled = FALSE
    /\ cmpInfo = NoCompareInfo
    /\ doc1LineHashes = <<>>
    /\ doc2LineHashes = <<>>
    /\ i = 0
    /\ alignPair = AlignmentPair
    /\ alignmentInfo = <<>>
    /\ markers = {}
    /\ result = "none"
    /\ hist = NoHistory
    /\ blocks = "none"

SpecMoves == InitMoves /\ [][Next]_vars

\* --------------------------------------------------------- DiffCalc on its own
Tokens == {1, 2, 3}

\* the calls DiffCalc<Elem>(v1, v2, detectMoves)() of lines 749, 422 and 337
DiffCalls ==
    [a : SeqsUpTo(Tokens, MaxTokens), b : SeqsUpTo(Tokens, MaxTokens),
     detectMoves : {DONT_DETECT, BLOCK_BASED, ELEMENT_BASED},
     state : {"call"}, ret : {<<>>}]

InitDiff ==
    /\ pc = "DiffCalc"
    /\ args = CHOOSE a \in CompareArgs : TRUE
    /\ docs = [v \in {MAIN_VIEW, SUB_VIEW} |-> EmptyDoc]
    /\ progress = FALSE
    /\ cancelled = FALSE
    /\ cmpInfo = NoCompareInfo
    /\ doc1LineHashes = <<>>
    /\ doc2LineHashes = <<>>
    /\ i = 0
    /\ alignPair = AlignmentPair
    /\ alignmentInfo = <<>>
    /\ markers = {}
    /\ result = "none"
    /\ hist = NoHistory
    /\ blocks \in DiffCalls

\* DiffCalc is called and returns the list of blocks
CallDiffCalc ==
    /\ pc = "DiffCalc"
    /\ blocks.state = "call"
    /\ blocks' = [blocks EXCEPT !.state = "returned",
                     !.ret = DiffCalc(blocks.a, blocks.b, blocks.detectMoves)]
    /\ UNCHANGED <<pc, args, docs, progress, cancelled, cmpInfo, doc1LineHashes,
                   doc2LineHashes, i, alignPair, alignmentInfo, markers, result, hist>>

NextDiff == CallDiffCalc

SpecDiff == InitDiff /\ [][NextDiff]_vars

\* ------------------------------------------- hashing and tokenizing on their own
\* the characters a, A, space and +
TextChars == {97, 65, 32, 43}

\* "a<tab>a", "<tab>+", "foobar", "foo  bar", "foo_bar1", "Foo_Bar1", "FOO bar"
LongLines ==
    { <<97, 9, 97>>, <<9, 43>>,
      <<102, 111, 111, 98, 97, 114>>, <<102, 111, 111, 32, 32, 98, 97, 114>>,
      <<102, 111, 111, 95, 98, 97, 114, 49>>, <<70, 111, 111, 95, 66, 97, 114, 49>>,
      <<70, 79, 79, 32, 98, 97, 114>> }

TextLines == SeqsUpTo(TextChars, MaxLineLen) \cup LongLines \cup {FooBar}

\* documents of two lines under every folding
TextCalls ==
    {[doc |-> <<l1, l2>>, settings |-> s, state |-> "call", lineHashes |-> <<>>,
      chunk |-> chunk_info(0, 0)] :
        l1 \in TextLines, l2 \in TextLines,
        s \in {s \in UserSettings : ~s.DetectMoves /\ s.OldFileViewId = MAIN_VIEW}}

InitText ==
    /\ pc = "text"
    /\ args = CHOOSE a \in CompareArgs : TRUE
    /\ docs = [v \in {MAIN_VIEW, SUB_VIEW} |-> EmptyDoc]
    /\ progress = FALSE
    /\ cancelled = FALSE
    /\ cmpInfo = NoCompareInfo
    /\ doc1LineHashes = <<>>
    /\ doc2LineHashes = <<>>
    /\ i = 0
    /\ alignPair = AlignmentPair
    /\ alignmentInfo = <<>>
    /\ markers = {}
    /\ result = "none"
    /\ hist = NoHistory
    /\ blocks \in TextCalls

\* computeLineHashes on the whole document
CallLineHashes ==
    /\ pc = "text"
    /\ blocks.state = "call"
    /\ blocks' = [blocks EXCEPT !.state = "hashed",
                     !.lineHashes =
                        computeLineHashes(DocCmpInfo(MAIN_VIEW, section_t(0, 0), NO_MASK),
                                          blocks.doc, blocks.settings).lineHashes]
    /\ UNCHANGED <<pc, args, docs, progress, cancelled, cmpInfo, doc1LineHashes,
                   doc2LineHashes, i, alignPair, alignmentInfo, markers, result, hist>>

\* getWords on the chunk of all lines of the document
CallGetWords ==
    /\ pc = "text"
    /\ blocks.state = "hashed"
    /\ blocks' = [blocks EXCEPT !.state = "tokenized",
                     !.chunk = getWords(blocks.doc, blocks.settings,
                                        chunk_info(0, Len(blocks.doc)))]
    /\ UNCHANGED <<pc, args, docs, progress, cancelled, cmpInfo, doc1LineHashes,
                   doc2LineHashes, i, alignPair, alignmentInfo, markers, result, hist>>

NextText == CallLineHashes \/ CallGetWords

SpecText == InitText /\ [][NextText]_vars

\* ------------------------------- getBestMatchingSubChunkOffset on its own
\* the lines "a b", "a" and "q"
ProbeHitLines == { <<97, 32, 98>>, <<97>> }

ProbeMissLine == <<113>>

\* the shorter block: the one line "a b"
ProbeShorterDoc == << <<97, 32, 98>> >>

\* the longer blocks: up to MaxProbeLines lines "q", up to two of them
\* replaced by a line that shares a word with the shorter block
ProbeLongerDocs ==
    UNION {{[k \in 1..n |-> IF k = h[1] THEN l[1] ELSE IF k = h[2] THEN l[2] ELSE ProbeMissLine] :
               h \in (0..n) \X (0..n), l \in ProbeHitLines \X ProbeHitLines} :
           n \in 1..MaxProbeLines}

ProbeSettings ==
    [IgnoreCase |-> FALSE, IgnoreSpaces |-> FALSE, DetectMoves |-> FALSE,
     DetectMovesLineMode |-> FALSE, OldFileViewId |-> MAIN_VIEW]

ProbeChunk(doc) == getWords(doc, ProbeSettings, chunk_info(0, Len(doc)))

\* the calls of line 405 and the locals of the loop of lines 245-300; probed is
\* the list of <<line, matchingWordsCount>> of the turns so far
ProbeCalls ==
    {[shorterChunk |-> ProbeChunk(ProbeShorterDoc), longerChunk |-> ProbeChunk(d),
      state |-> "call", endLine |-> 0, step |-> 0, line |-> 0, bestMatchWordsCount |-> 0,
      bestMatchingSubChunkOffset |-> -1, ret |-> 0, probed |-> <<>>] :
        d \in ProbeLongerDocs}

InitProbe ==
    /\ pc = "probe"
    /\ args = CHOOSE a \in CompareArgs : TRUE
    /\ docs = [v \in {MAIN_VIEW, SUB_VIEW} |-> EmptyDoc]
    /\ progress = FALSE
    /\ cancelled = FALSE
    /\ cmpInfo = NoCompareInfo
    /\ doc1LineHashes = <<>>
    /\ doc2LineHashes = <<>>
    /\ i = 0
    /\ alignPair = AlignmentPair
    /\ alignmentInfo = <<>>
    /\ markers = {}
    /\ result = "none"
    /\ hist = NoHistory
    /\ blocks \in ProbeCalls

\* line 248: the condition of the loop
ProbeLoops(p) == p.line <= p.endLine /\ p.line # p.bestMatchingSubChunkOffset

\* line 252 reads lineStartWordIdx[line] inside the vector
InLineTable(chunk, line) == line >= 0 /\ line < chunk.lineCount

\* the number of alphanumeric words of a chunk
AlnumWords(chunk) ==
    Cardinality({w \in 1..Len(chunk.words) : chunk.words[w].type = ALPHANUMCHAR})

\* lines 284-299 with line 296 left out: the count of the best offset is not kept
ProbeNextKeepCount(p, matchingWordsCount) ==
    LET step == (p.step \div 2) + (p.step % 2)
        q == [p EXCEPT !.step = step, !.probed = Append(@, <<p.line, matchingWordsCount>>)]
    IN  IF p.bestMatchWordsCount > matchingWordsCount
        THEN [q EXCEPT !.line = @ - step]
        ELSE IF matchingWordsCount = 0
        THEN [q EXCEPT !.state = "returned", !.ret = 0]
        ELSE [q EXCEPT !.bestMatchingSubChunkOffset = p.line,
                       !.line = @ + step]

\* lines 284-299 with lines 293-294 left out: no return for a count of 0
ProbeNextNoReturn(p, matchingWordsCount) ==
    LET step == (p.step \div 2) + (p.step % 2)
        q == [p EXCEPT !.step = step, !.probed = Append(@, <<p.line, matchingWordsCount>>)]
    IN  IF p.bestMatchWordsCount > matchingWordsCount
        THEN [q EXCEPT !.line = @ - step]
        ELSE [q EXCEPT !.bestMatchWordsCount = matchingWordsCount,
                       !.bestMatchingSubChunkOffset = p.line,
                       !.line = @ + step]

\* lines 284-299: the rest of a turn of the loop, the count of the probed line known
ProbeNext(p, matchingWordsCount) ==
    LET step == (p.step \div 2) + (p.step % 2)
        q == [p EXCEPT !.step = step, !.probed = Append(@, <<p.line, matchingWordsCount>>)]
    IN  IF p.bestMatchWordsCount > matchingWordsCount
        THEN [q EXCEPT !.line = @ - step]
        ELSE IF matchingWordsCount = 0
        THEN [q EXCEPT !.state = "returned", !.ret = 0]
        ELSE [q EXCEPT !.bestMatchWordsCount = matchingWordsCount,
                       !.bestMatchingSubChunkOffset = p.line,
                       !.line = @ + step]

\* lines 240-247
ProbeStart(p) ==
    LET endLine == p.longerChunk.lineCount - p.shorterChunk.lineCount
    IN  IF endLine <= 0
        THEN [p EXCEPT !.state = "returned", !.endLine = endLine, !.ret = 0]
        ELSE [p EXCEPT !.state = "loop", !.endLine = endLine, !.step = endLine + 1,
                       !.line = 0, !.bestMatchWordsCount = 0,
                       !.bestMatchingSubChunkOffset = -1]

ProbeUnchanged ==
    UNCHANGED <<pc, args, docs, progress, cancelled, cmpInfo, doc1LineHashes,
                doc2LineHashes, i, alignPair, alignmentInfo, markers, result, hist>>

\* the call and lines 240-247
ProbeEnter ==
    /\ pc = "probe"
    /\ blocks.state = "call"
    /\ blocks' = ProbeStart(blocks)
    /\ ProbeUnchanged

\* lines 248-299: a turn of the loop for a line of the longer chunk
ProbeTurn ==
    /\ pc = "probe"
    /\ blocks.state = "loop"
    /\ ProbeLoops(blocks)
    /\ InLineTable(blocks.longerChunk, blocks.line)
    /\ blocks' = ProbeNext(blocks,
                     SubChunkScore(blocks.shorterChunk, blocks.longerChunk, blocks.line))
    /\ ProbeUnchanged

\* lines 248-299: a turn of the loop for a line below 0. Line 252 reads
\* lineStartWordIdx before its first element: the words copied from there on
\* are of any number and content, so the count is any count the shorter chunk
\* allows, or the copy fails and the loop is left by a fault. Below
\* -MaxProbeUnder only the fault is followed.
ProbeOutside ==
    /\ pc = "probe"
    /\ blocks.state = "loop"
    /\ ProbeLoops(blocks)
    /\ ~InLineTable(blocks.longerChunk, blocks.line)
    /\ \/ blocks' = [blocks EXCEPT !.state = "fault",
                                   !.probed = Append(@, <<blocks.line, -1>>)]
       \/ /\ blocks.line >= -MaxProbeUnder
          /\ \E matchingWordsCount \in 0..AlnumWords(blocks.shorterChunk) :
                blocks' = ProbeNext(blocks, matchingWordsCount)
    /\ ProbeUnchanged

\* line 302
ProbeReturn ==
    /\ pc = "probe"
    /\ blocks.state = "loop"
    /\ ~ProbeLoops(blocks)
    /\ blocks' = [blocks EXCEPT !.state = "returned", !.ret = blocks.bestMatchingSubChunkOffset]
    /\ ProbeUnchanged

NextProbe ==
    \/ ProbeEnter
    \/ ProbeTurn
    \/ ProbeOutside
    \/ ProbeReturn

SpecProbe == InitProbe /\ [][NextProbe]_vars

\* --------------------------------------------------- DeletedSectionsList
\* the actions Scintilla reports with a modification
SC_PERFORMED_USER == "SC_PERFORMED_USER"

SC_PERFORMED_UNDO == "SC_PERFORMED_UNDO"

SC_PERFORMED_REDO == "SC_PERFORMED_REDO"

PerformedActions == {SC_PERFORMED_USER, SC_PERFORMED_UNDO, SC_PERFORMED_REDO}

\* the constructor of DeletedSection; saved is the resized vector, filled by push
DeletedSection(action, line, saved) ==
    [startLine |-> line, lineReplace |-> FALSE,
     restoreAction |-> IF action = SC_PERFORMED_UNDO THEN SC_PERFORMED_REDO
                       ELSE SC_PERFORMED_UNDO,
     markers |-> saved]

\* the constructor of DeletedSectionsList
DeletedSectionsList == [skipPush |-> 0, sections |-> <<>>]

\* the list with the markers of the current view: view[line + 1] is the
\* marker mask of a line, 0 for none
ListAndView(list, view) == [list |-> list, view |-> view, path |-> "none"]

\* lines 198-205: the masks of the lines startLine..endLine, and the view
\* with the marks of all these lines but the last one cleared
SavedMarkers(view, startLine, endLine) ==
    [k \in 1..(endLine - startLine + 1) |-> view[startLine + k]]

ClearedAbove(view, startLine, endLine) ==
    [l \in 1..Len(view) |-> IF l - 1 >= startLine /\ l - 1 < endLine THEN 0 ELSE view[l]]

\* lines 243-254: the marks of the lines of the section set to the saved ones
RestoredMarkers(view, section) ==
    [l \in 1..Len(view) |->
        IF l - 1 >= section.startLine /\ l - 1 < section.startLine + Len(section.markers)
        THEN section.markers[l - section.startLine]
        ELSE view[l]]

Back(sections) == sections[Len(sections)]

PopBack(sections) == SubSeq(sections, 1, Len(sections) - 1)

\* DeletedSectionsList::clear
clear(lv) == [lv EXCEPT !.list = [skipPush |-> 0, sections |-> <<>>], !.path = "cleared"]

\* DeletedSectionsList::push
push(lv, currAction, startLine, endLine) ==
    IF endLine <= startLine THEN [lv EXCEPT !.path = "single line"]
    ELSE IF lv.list.skipPush # 0
    THEN [lv EXCEPT !.list.skipPush = @ - 1, !.path = "skipped"]
    ELSE IF /\ Len(lv.list.sections) # 0
            /\ Back(lv.list.sections).restoreAction = currAction
            /\ Back(lv.list.sections).lineReplace
    THEN [lv EXCEPT !.path = "line replace"]
    ELSE [lv EXCEPT
            !.list.sections =
                Append(@, DeletedSection(currAction, startLine,
                                         SavedMarkers(lv.view, startLine, endLine))),
            !.view = ClearedAbove(lv.view, startLine, endLine),
            !.path = "pushed"]

\* DeletedSectionsList::pop without the test of lines 238-239 for the start line
popAnyLine(lv, currAction, startLine, soon) ==
    IF Len(lv.list.sections) = 0
    THEN [lv EXCEPT !.list.skipPush = @ + 1, !.path = "counted"]
    ELSE IF Back(lv.list.sections).restoreAction # currAction
    THEN IF soon
         THEN [lv EXCEPT !.list.sections[Len(lv.list.sections)].lineReplace = TRUE,
                         !.path = "line replace"]
         ELSE [lv EXCEPT !.list.skipPush = @ + 1, !.path = "counted"]
    ELSE [lv EXCEPT !.view = RestoredMarkers(lv.view, Back(lv.list.sections)),
                    !.list.sections = PopBack(@),
                    !.path = "restored"]

\* DeletedSectionsList::pop; soon is GetTickCount() < lastPushTimeMark + 40
pop(lv, currAction, startLine, soon) ==
    IF Len(lv.list.sections) = 0
    THEN [lv EXCEPT !.list.skipPush = @ + 1, !.path = "counted"]
    ELSE IF Back(lv.list.sections).restoreAction # currAction
    THEN IF soon
         THEN [lv EXCEPT !.list.sections[Len(lv.list.sections)].lineReplace = TRUE,
                         !.path = "line replace"]
         ELSE [lv EXCEPT !.list.skipPush = @ + 1, !.path = "counted"]
    ELSE IF Back(lv.list.sections).startLine # startLine
    THEN [lv EXCEPT !.path = "other line"]
    ELSE [lv EXCEPT !.view = RestoredMarkers(lv.view, Back(lv.list.sections)),
                    !.list.sections = PopBack(@),
                    !.path = "restored"]

\* the calls: op, currAction, startLine and endLine are those of the last call
DeletedUnchanged ==
    UNCHANGED <<pc, args, docs, progress, cancelled, cmpInfo, doc1LineHashes,
                doc2LineHashes, i, alignPair, alignmentInfo, markers, result, hist>>

ViewMarkers == [1..MaxViewLines -> {0, 1}]

InitDeleted ==
    /\ pc = "deletedSections"
    /\ args = CHOOSE a \in CompareArgs : TRUE
    /\ docs = [v \in {MAIN_VIEW, SUB_VIEW} |-> EmptyDoc]
    /\ progress = FALSE
    /\ cancelled = FALSE
    /\ cmpInfo = NoCompareInfo
    /\ doc1LineHashes = <<>>
    /\ doc2LineHashes = <<>>
    /\ i = 0
    /\ alignPair = AlignmentPair
    /\ alignmentInfo = <<>>
    /\ markers = {}
    /\ result = "none"
    /\ hist = NoHistory
    /\ \E view \in ViewMarkers :
          blocks = [lv |-> ListAndView(DeletedSectionsList, view),
                    op |-> "none", currAction |-> SC_PERFORMED_USER, startLine |-> 0,
                    endLine |-> 0]

\* line 2252: a deletion of the lines startLine..endLine is about to happen
CallPush ==
    /\ pc = "deletedSections"
    /\ \E currAction \in PerformedActions, startLine \in 0..(MaxViewLines - 2),
          endLine \in 0..(MaxViewLines - 1) :
          /\ endLine \in startLine..(startLine + 1)
          /\ Len(blocks.lv.list.sections) < MaxSections
          /\ blocks' = [lv |-> push(blocks.lv, currAction, startLine, endLine),
                        op |-> "push", currAction |-> currAction, startLine |-> startLine,
                        endLine |-> endLine]
    /\ DeletedUnchanged

\* line 2263: lines have been put in at startLine
CallPop ==
    /\ pc = "deletedSections"
    /\ \E currAction \in PerformedActions, startLine \in 0..(MaxViewLines - 2),
          soon \in BOOLEAN :
          /\ blocks.lv.list.skipPush < MaxSkipPush
          /\ blocks' = [lv |-> pop(blocks.lv, currAction, startLine, soon),
                        op |-> "pop", currAction |-> currAction, startLine |-> startLine,
                        endLine |-> startLine]
    /\ DeletedUnchanged

\* lines 763 and 771
CallClear ==
    /\ pc = "deletedSections"
    /\ blocks' = [lv |-> clear(blocks.lv), op |-> "clear",
                  currAction |-> SC_PERFORMED_USER, startLine |-> 0, endLine |-> 0]
    /\ DeletedUnchanged

\* the editor changes the text and with it the markers of the lines
ViewChanges ==
    /\ pc = "deletedSections"
    /\ \E view \in ViewMarkers :
          blocks' = [blocks EXCEPT !.lv.view = view, !.lv.path = "none", !.op = "edit"]
    /\ DeletedUnchanged

NextDeleted ==
    \/ CallPush
    \/ CallPop
    \/ CallClear
    \/ ViewChanges

SpecDeleted == InitDeleted /\ [][NextDeleted]_vars

\* ----------------------------------------------------------- DelayedUpdate
\* DelayedWork is a one-shot timer: post starts it, cancel stops it, isPending
\* tells whether it runs, and the work is called when it expires
post(work) == [work EXCEPT !.pending = TRUE]

cancel(work) == [work EXCEPT !.pending = FALSE]

isPending(work) == work.pending

\* the constructor of DelayedUpdate, which leaves changePos unset
DelayedUpdate(anyPos) ==
    [pending |-> FALSE, changePos |-> anyPos, linesAdded |-> 0, linesDeleted |-> 0,
     fullCompare |-> FALSE]

SC_MOD_INSERTTEXT == "SC_MOD_INSERTTEXT"

SC_MOD_DELETETEXT == "SC_MOD_DELETETEXT"

\* a notification of Scintilla: linesAdded is negative for a deletion
SCNotification(modificationType, position, lines) ==
    [modificationType |-> modificationType, position |-> position,
     linesAdded |-> IF modificationType = SC_MOD_DELETETEXT THEN 0 - lines ELSE lines]

\* lines 2291-2313 of onSciModifiedUpdate, for a compared file
onSciModifiedUpdate(work, notifyCode) ==
    IF work.fullCompare THEN work
    ELSE post([work EXCEPT
            !.pending = FALSE,
            !.changePos = IF isPending(work)
                          THEN (IF @ > notifyCode.position THEN notifyCode.position ELSE @)
                          ELSE notifyCode.position,
            !.linesAdded = IF notifyCode.modificationType = SC_MOD_INSERTTEXT
                           THEN @ + notifyCode.linesAdded ELSE @,
            !.linesDeleted = IF notifyCode.modificationType = SC_MOD_INSERTTEXT
                             THEN @ ELSE @ + (0 - notifyCode.linesAdded)])

\* lines 2502-2508 of onFileSaved
onFileSaved(work, pairIsActive, RecompareOnSave) ==
    IF pairIsActive /\ RecompareOnSave
    THEN post([cancel(work) EXCEPT !.fullCompare = TRUE])
    ELSE work

\* line 2451 of onFileBeforeClose, for a compared file
onFileBeforeClose(work) == cancel(work)

\* DelayedUpdate::operator(); compare() and compareViews() leave the work alone
DelayedUpdateRun(work) ==
    IF work.fullCompare
    THEN [work EXCEPT !.linesAdded = 0, !.linesDeleted = 0, !.fullCompare = FALSE]
    ELSE [work EXCEPT !.linesAdded = 0, !.linesDeleted = 0]

\* the calls: op is the last call, coalesced the notifications taken into the
\* update since it was last posted anew
UpdateUnchanged ==
    UNCHANGED <<pc, args, docs, progress, cancelled, cmpInfo, doc1LineHashes,
                doc2LineHashes, i, alignPair, alignmentInfo, markers, result, hist>>

InitUpdate ==
    /\ pc = "delayedUpdate"
    /\ args = CHOOSE a \in CompareArgs : TRUE
    /\ docs = [v \in {MAIN_VIEW, SUB_VIEW} |-> EmptyDoc]
    /\ progress = FALSE
    /\ cancelled = FALSE
    /\ cmpInfo = NoCompareInfo
    /\ doc1LineHashes = <<>>
    /\ doc2LineHashes = <<>>
    /\ i = 0
    /\ alignPair = AlignmentPair
    /\ alignmentInfo = <<>>
    /\ markers = {}
    /\ result = "none"
    /\ hist = NoHistory
    /\ \E anyPos \in 0..MaxChangePos :
          blocks = [work |-> DelayedUpdate(anyPos), op |-> "none", coalesced |-> <<>>]

\* SCN_MODIFIED with UpdateOnChange, lines 2657-2660
Modified ==
    /\ pc = "delayedUpdate"
    /\ \E modificationType \in {SC_MOD_INSERTTEXT, SC_MOD_DELETETEXT},
          position \in 0..MaxChangePos, lines \in 0..1 :
          LET notifyCode == SCNotification(modificationType, position, lines)
          IN /\ isPending(blocks.work) /\ ~blocks.work.fullCompare
                  => Len(blocks.coalesced) < MaxCoalesced
             /\ blocks.work.linesAdded + blocks.work.linesDeleted < MaxCoalesced
             /\ blocks' =
                  [work |-> onSciModifiedUpdate(blocks.work, notifyCode),
                   op |-> "modified",
                   coalesced |->
                      IF blocks.work.fullCompare THEN blocks.coalesced
                      ELSE IF isPending(blocks.work)
                           THEN Append(blocks.coalesced, notifyCode)
                           ELSE <<notifyCode>>]
    /\ UpdateUnchanged

\* NPPN_FILESAVED, lines 2648-2651
FileSaved ==
    /\ pc = "delayedUpdate"
    /\ \E pairIsActive \in BOOLEAN, RecompareOnSave \in BOOLEAN :
          blocks' = [work |-> onFileSaved(blocks.work, pairIsActive, RecompareOnSave),
                     op |-> "saved",
                     coalesced |-> IF pairIsActive /\ RecompareOnSave THEN <<>>
                                   ELSE blocks.coalesced]
    /\ UpdateUnchanged

\* NPPN_FILEBEFORECLOSE, lines 2639-2646
FileBeforeClose ==
    /\ pc = "delayedUpdate"
    /\ blocks' = [work |-> onFileBeforeClose(blocks.work), op |-> "closing",
                  coalesced |-> <<>>]
    /\ UpdateUnchanged

\* the timer expires
UpdateRuns ==
    /\ pc = "delayedUpdate"
    /\ isPending(blocks.work)
    /\ blocks' = [work |-> DelayedUpdateRun(cancel(blocks.work)), op |-> "run",
                  coalesced |-> <<>>]
    /\ UpdateUnchanged

NextUpdate ==
    \/ Modified
    \/ FileSaved
    \/ FileBeforeClose
    \/ UpdateRuns

SpecUpdate == InitUpdate /\ [][NextUpdate]_vars

\* ------------------------------------------------------------- the plugin
\* Notepad++ as the plugin sees it: every buffer is in one of the two views
\* or closed, each view shows one of its buffers (0 for an empty view), and
\* one view has the focus. A buffer has one document, which goes with it from
\* view to view, so the buffer stands for its document.
CLOSED == "closed"

Buffers == 1..MaxBuffers

ViewIds == {MAIN_VIEW, SUB_VIEW}

OtherViewId(viewId) == IF viewId = MAIN_VIEW THEN SUB_VIEW ELSE MAIN_VIEW

OpenIn(npp, viewId) == {b \in Buffers : npp.view[b] = viewId}

Lowest(set) == IF set = {} THEN 0 ELSE CHOOSE b \in set : \A c \in set : b <= c

getCurrentViewId(npp) == npp.focus

getCurrentBuffId(npp) == npp.active[npp.focus]

viewIdFromBuffId(npp, buffId) == IF buffId \in Buffers THEN npp.view[buffId] ELSE CLOSED

getDocId(npp, viewId) == npp.active[viewId]

isSingleView(npp) == \E viewId \in ViewIds : npp.active[viewId] = 0

isOpen(npp, buffId) == viewIdFromBuffId(npp, buffId) # CLOSED

activateBufferID(npp, buffId) ==
    IF isOpen(npp, buffId)
    THEN [npp EXCEPT !.focus = npp.view[buffId], !.active[npp.view[buffId]] = buffId]
    ELSE npp

\* IDM_VIEW_GOTO_ANOTHER_VIEW: the current buffer goes to the other view and
\* is shown there; the view it leaves shows another of its buffers
GotoAnotherView(npp) ==
    LET b == getCurrentBuffId(npp)
        from == npp.focus
        to == OtherViewId(npp.focus)
    IN IF b = 0 THEN npp
       ELSE [npp EXCEPT !.view[b] = to,
                        !.active = [v \in ViewIds |->
                                      IF v = to THEN b ELSE Lowest(OpenIn(npp, from) \ {b})],
                        !.focus = to]

\* IDM_VIEW_SWITCHTO_OTHER_VIEW
SwitchToOtherView(npp) ==
    IF npp.active[OtherViewId(npp.focus)] # 0
    THEN [npp EXCEPT !.focus = OtherViewId(npp.focus)]
    ELSE npp

\* a buffer is closed; its view shows another of its buffers, and the focus
\* goes to the other view when none is left
CloseBuffer(npp, b) ==
    LET v == npp.view[b]
        left == OpenIn(npp, v) \ {b}
        shown == IF npp.active[v] = b THEN Lowest(left) ELSE npp.active[v]
    IN IF ~isOpen(npp, b) THEN npp
       ELSE [npp EXCEPT !.view[b] = CLOSED,
                        !.active[v] = shown,
                        !.focus = IF shown = 0 THEN OtherViewId(v) ELSE npp.focus]

\* Settings.OldFileViewId
OldFileViewId == MAIN_VIEW

\* ComparedFile::initFromCurrent, without the tab position and the name
initFromCurrent(npp, currFileIsNew) ==
    [isNew |-> currFileIsNew,
     buffId |-> getCurrentBuffId(npp),
     originalViewId |-> getCurrentViewId(npp),
     sciDoc |-> getDocId(npp, getCurrentViewId(npp))]

\* ComparedFile::updateView: compareViewId, which positionFiles sets anew
\* before it reads it
updateView(file) == IF file.isNew THEN OtherViewId(OldFileViewId) ELSE OldFileViewId

\* ComparedPair::getOldFile and getNewFile, as indexes of file[]
OldIdx(pair) == IF pair.file[1].isNew THEN 2 ELSE 1

NewIdx(pair) == IF pair.file[1].isNew THEN 1 ELSE 2

\* ComparedPair::getFileByBuffId and getOtherFileByBuffId, as indexes of file[]
IdxByBuffId(pair, buffId) == IF pair.file[1].buffId = buffId THEN 1 ELSE 2

OtherIdxByBuffId(pair, buffId) == IF pair.file[1].buffId = buffId THEN 2 ELSE 1

\* lines 893-899 and 901-907 of positionFiles for one file of the pair
PositionFile(pn, k) ==
    IF viewIdFromBuffId(pn.npp, pn.pair.file[k].buffId) # updateView(pn.pair.file[k])
    THEN LET act == IF pn.pair.file[k].buffId # getCurrentBuffId(pn.npp)
                    THEN activateBufferID(pn.npp, pn.pair.file[k].buffId)
                    ELSE pn.npp
             moved == GotoAnotherView(act)
         IN [npp |-> moved,
             pair |-> [pn.pair EXCEPT
                          !.file[k].sciDoc = getDocId(moved, getCurrentViewId(moved))]]
    ELSE pn

\* lines 909-913 of positionFiles for one file of the pair
ShowFile(pn, k) ==
    IF pn.pair.file[k].sciDoc # getDocId(pn.npp, updateView(pn.pair.file[k]))
    THEN [pn EXCEPT !.npp = activateBufferID(pn.npp, pn.pair.file[k].buffId)]
    ELSE pn

\* ComparedPair::positionFiles, without the zoom and the tab positions
positionFiles(npp, pair) ==
    LET currentBuffId == getCurrentBuffId(npp)
        old == OldIdx(pair)
        new == NewIdx(pair)
        placed == ShowFile(ShowFile(PositionFile(PositionFile(
                      [npp |-> npp, pair |-> pair], old), new), old), new)
    IN [placed EXCEPT !.npp = activateBufferID(@, currentBuffId)]

\* ComparedFile::restore of a file that is no temporary copy
restore(npp, file) ==
    LET act == IF file.buffId # getCurrentBuffId(npp)
               THEN activateBufferID(npp, file.buffId) ELSE npp
    IN IF viewIdFromBuffId(act, file.buffId) # file.originalViewId
       THEN GotoAnotherView(act)
       ELSE act

\* ComparedPair::restoreFiles, without the tab positions; 0 stands for -1
restoreFiles(npp, pair, currentBuffId) ==
    IF currentBuffId = 0
    THEN restore(restore(npp, pair.file[1]), pair.file[2])
    ELSE restore(restore(npp, pair.file[OtherIdxByBuffId(pair, currentBuffId)]),
                 pair.file[IdxByBuffId(pair, currentBuffId)])

\* the plugin: compareList, newCompare (<<>> when unset, else the first file),
\* notificationsLock, NppSettings.compareMode and the delayed works but for
\* the alignment, which moves no buffer and no pair
ScopedIncrementer(pl) == [pl EXCEPT !.notificationsLock = @ + 1]

ScopedIncrementerEnd(pl) == [pl EXCEPT !.notificationsLock = @ - 1]

Erase(list, k) == SubSeq(list, 1, k - 1) \o SubSeq(list, k + 1, Len(list))

HasBuffId(pair, buffId) == pair.file[1].buffId = buffId \/ pair.file[2].buffId = buffId

HasSciDoc(pair, sciDoc) == pair.file[1].sciDoc = sciDoc \/ pair.file[2].sciDoc = sciDoc

\* getCompare: the index of the first pair with the buffer, 0 for end()
getCompare(compareList, buffId) ==
    Lowest({k \in 1..Len(compareList) : HasBuffId(compareList[k], buffId)})

getCompareBySciDoc(compareList, sciDoc) ==
    Lowest({k \in 1..Len(compareList) : HasSciDoc(compareList[k], sciDoc)})

isFileCompared(pl, viewId) ==
    getCompareBySciDoc(pl.compareList, getDocId(pl.npp, viewId)) # 0

setFirst(pl, currFileIsNew) ==
    IF isFileCompared(pl, getCurrentViewId(pl.npp))
    THEN [ok |-> FALSE, pl |-> pl]
    ELSE [ok |-> TRUE,
          pl |-> [pl EXCEPT !.newCompare = <<initFromCurrent(pl.npp, currFileIsNew)>>]]

\* cancel for the delayed activation: its buffId is written before every post
\* and read by the posted work only, so it is put to 0 with the cancel
cancelActivation(work) == [pending |-> FALSE, buffId |-> 0]

onBufferActivated(pl, buffId) ==
    IF getCompare(pl.compareList, buffId) = 0
    THEN [pl EXCEPT !.delayedActivation = cancelActivation(@),
                    !.compareMode = FALSE]
    ELSE [pl EXCEPT !.delayedActivation = post([@ EXCEPT !.buffId = buffId])]

clearComparePair(pl, buffId) ==
    LET k == getCompare(pl.compareList, buffId)
    IN IF k = 0 THEN pl
       ELSE LET locked == ScopedIncrementer(pl)
                restored == [locked EXCEPT
                                !.npp = restoreFiles(@, pl.compareList[k], buffId),
                                !.compareList = Erase(@, k)]
            IN ScopedIncrementerEnd(
                   onBufferActivated(restored, getCurrentBuffId(restored.npp)))

\* ComparedFile::close
close(npp, file) ==
    LET act == IF file.buffId # getCurrentBuffId(npp)
               THEN activateBufferID(npp, file.buffId) ELSE npp
    IN CloseBuffer(act, getCurrentBuffId(act))

\* ComparedPair::getFileByViewId, as an index of file[]
IdxByViewId(npp, pair, viewId) ==
    IF viewIdFromBuffId(npp, pair.file[1].buffId) = viewId THEN 1 ELSE 2

closeComparePair(pl, k) ==
    LET locked == ScopedIncrementer(pl)
        pair == pl.compareList[k]
        sub == close(locked.npp, pair.file[IdxByViewId(locked.npp, pair, SUB_VIEW)])
        main == close(sub, pair.file[IdxByViewId(sub, pair, MAIN_VIEW)])
        erased == [locked EXCEPT !.npp = main, !.compareList = Erase(@, k)]
    IN ScopedIncrementerEnd(onBufferActivated(erased, getCurrentBuffId(main)))

\* IDM_VIEW_TAB_NEXT or IDM_VIEW_TAB_PREV: next is the buffer of that tab,
\* which is another buffer of the view whenever there is one
TabNextOf(npp, next) ==
    LET others == OpenIn(npp, npp.focus) \ {getCurrentBuffId(npp)}
    IN IF next \in others THEN next
       ELSE IF others = {} THEN getCurrentBuffId(npp) ELSE Lowest(others)

TabNext(npp, next) == activateBufferID(npp, TabNextOf(npp, next))

initNewCompare(pl, next) ==
    LET firstIsSet == /\ pl.newCompare # <<>>
                      /\ pl.newCompare[1].buffId # getCurrentBuffId(pl.npp)
        singleView == isSingleView(pl.npp)
        isNew == IF singleView THEN TRUE ELSE getCurrentViewId(pl.npp) # OldFileViewId
        first == setFirst(pl, isNew)
        second(q) == [q EXCEPT !.newCompare =
                        <<q.newCompare[1],
                          initFromCurrent(q.npp, ~q.newCompare[1].isNew)>>]
    IN IF firstIsSet THEN [ok |-> TRUE, pl |-> second(pl)]
       ELSE IF ~first.ok THEN first
       ELSE IF singleView
       THEN IF Cardinality(OpenIn(pl.npp, getCurrentViewId(pl.npp))) < 2
            THEN [ok |-> FALSE, pl |-> first.pl]
            ELSE [ok |-> TRUE,
                  pl |-> second([first.pl EXCEPT !.npp = TabNext(@, next)])]
       ELSE IF isFileCompared(first.pl, OtherViewId(getCurrentViewId(pl.npp)))
       THEN [ok |-> FALSE, pl |-> first.pl]
       ELSE [ok |-> TRUE,
             pl |-> second([first.pl EXCEPT !.npp = SwitchToOtherView(@)])]

addComparePair(pl) ==
    [pl EXCEPT !.compareList = Append(@, [file |-> pl.newCompare]),
               !.newCompare = <<>>]

\* runCompare up to the call of compareViews: the files are put in their views
runCompareBegin(pl, k) ==
    LET placed == positionFiles(pl.npp, pl.compareList[k])
    IN [pl EXCEPT !.npp = placed.npp, !.compareList[k] = placed.pair]

NoCall == [at |-> "idle", cmpPair |-> 0, recompare |-> FALSE, doubleView |-> FALSE,
           currentBuffId |-> 0]

compareReturned(pl) == [pl |-> ScopedIncrementerEnd(pl), call |-> NoCall]

\* compare, lines 1455-1508: either it returns or the engine is to run
compareBegin(pl0, selectionCompare, selectionsValid, encodingOK, next) ==
    LET pl == ScopedIncrementer(pl0)
        doubleView == ~isSingleView(pl.npp)
        currentBuffId == getCurrentBuffId(pl.npp)
        k == getCompare(pl.compareList, currentBuffId)
        recompare == k # 0
        call(j) == [at |-> "engine", cmpPair |-> j, recompare |-> recompare,
                    doubleView |-> doubleView, currentBuffId |-> currentBuffId]
        init == initNewCompare(pl, next)
        added == addComparePair(init.pl)
        active == [added EXCEPT !.npp = activateBufferID(@, currentBuffId)]
    IN IF recompare
       THEN IF selectionCompare /\ ~selectionsValid
            THEN compareReturned([pl EXCEPT !.newCompare = <<>>])
            ELSE [pl |-> runCompareBegin([pl EXCEPT !.newCompare = <<>>], k),
                  call |-> call(k)]
       ELSE IF ~init.ok
       THEN compareReturned([init.pl EXCEPT !.newCompare = <<>>])
       ELSE IF selectionCompare /\ ~selectionsValid
       THEN compareReturned([active EXCEPT !.compareList = Erase(@, Len(@))])
       ELSE IF ~encodingOK
       THEN compareReturned(clearComparePair(active, getCurrentBuffId(active.npp)))
       ELSE [pl |-> runCompareBegin(active, Len(active.compareList)),
             call |-> call(Len(active.compareList))]

\* syncViews moves no buffer
syncViews(pl) == ScopedIncrementerEnd(ScopedIncrementer(pl))

\* compare, lines 1510-1611, with clearComparePair for every result
compareEndAlwaysClear(pl, call, cmpResult, choiceYes, GotoFirstDiff) ==
    ScopedIncrementerEnd(clearComparePair(pl, getCurrentBuffId(pl.npp)))

\* compare, lines 1510-1611: the switch over the result of the engine
compareEnd(pl, call, cmpResult, choiceYes, GotoFirstDiff) ==
    ScopedIncrementerEnd(
        IF cmpResult = COMPARE_MISMATCH
        THEN LET pair == pl.compareList[call.cmpPair]
                 mode == [pl EXCEPT !.compareMode = TRUE]
             IN syncViews(
                    IF call.recompare /\ ~GotoFirstDiff
                    THEN [mode EXCEPT !.npp = activateBufferID(@, call.currentBuffId)]
                    ELSE IF ~call.doubleView
                    THEN [mode EXCEPT !.npp =
                            activateBufferID(@, pair.file[NewIdx(pair)].buffId)]
                    ELSE mode)
        ELSE IF cmpResult = COMPARE_MATCH /\ choiceYes
        THEN closeComparePair(pl, call.cmpPair)
        ELSE clearComparePair(pl, getCurrentBuffId(pl.npp)))

SetAsFirst(pl, OldFileIsFirst) ==
    LET first == setFirst(pl, ~OldFileIsFirst)
    IN IF first.ok THEN first.pl ELSE [pl EXCEPT !.newCompare = <<>>]

ClearActiveCompare(pl) ==
    LET reset == [pl EXCEPT !.newCompare = <<>>]
    IN IF pl.compareMode THEN clearComparePair(reset, getCurrentBuffId(pl.npp))
       ELSE reset

RECURSIVE RestoreAll(_, _, _)
RestoreAll(npp, compareList, k) ==
    IF k = 0 THEN npp
    ELSE RestoreAll(restoreFiles(npp, compareList[k], 0), compareList, k - 1)

ClearAllCompares(pl) ==
    LET reset == [pl EXCEPT !.newCompare = <<>>]
        buffId == getCurrentBuffId(pl.npp)
        locked == ScopedIncrementer(reset)
        focused == SwitchToOtherView(locked.npp)
        otherBuffId == getCurrentBuffId(focused)
        restored == RestoreAll(focused, pl.compareList, Len(pl.compareList))
        other == IF ~isSingleView(restored) THEN activateBufferID(restored, otherBuffId)
                 ELSE restored
    IN IF Len(pl.compareList) = 0 THEN reset
       ELSE ScopedIncrementerEnd(
                [locked EXCEPT !.npp = activateBufferID(other, buffId),
                               !.compareList = <<>>,
                               !.compareMode = FALSE])

\* onFileBeforeClose, without the tab positions
onFileBeforeClosePair(pl, buffId) ==
    LET k == getCompare(pl.compareList, buffId)
        currentBuffId == getCurrentBuffId(pl.npp)
        posted == [pl EXCEPT
                     !.delayedUpdate = onFileBeforeClose(@),
                     !.delayedActivation = cancelActivation(@),
                     !.delayedClosure = [cancel(@) EXCEPT
                                            !.closedBuffs = Append(@, buffId)]]
        locked == ScopedIncrementer(posted)
        closing == activateBufferID(locked.npp, buffId)
        back == IF currentBuffId # buffId THEN activateBufferID(closing, currentBuffId)
                ELSE closing
    IN IF k = 0 THEN pl
       ELSE ScopedIncrementerEnd(
                [locked EXCEPT !.npp = back, !.delayedClosure = post(@)])

\* the loop of DelayedClose::operator() from the last closed buffer to the first
RECURSIVE CloseLoop(_, _)
CloseLoop(pl, n) ==
    IF n = 0 THEN pl
    ELSE LET buffId == pl.delayedClosure.closedBuffs[n]
             k == getCompare(pl.compareList, buffId)
             pair == pl.compareList[k]
             otherFile == pair.file[OtherIdxByBuffId(pair, buffId)]
         IN IF k = 0 THEN CloseLoop(pl, n - 1)
            ELSE CloseLoop([pl EXCEPT
                     !.npp = IF isOpen(pl.npp, otherFile.buffId)
                             THEN restore(pl.npp, otherFile) ELSE pl.npp,
                     !.compareList = Erase(@, k)], n - 1)

\* DelayedClose::operator(); the last file left in the sub view goes to the main view
DelayedCloseRun(pl) ==
    LET currentBuffId == getCurrentBuffId(pl.npp)
        locked == ScopedIncrementer(pl)
        closed == CloseLoop(locked, Len(locked.delayedClosure.closedBuffs))
        cleared == [closed EXCEPT !.delayedClosure.closedBuffs = <<>>,
                                  !.npp = activateBufferID(@, currentBuffId)]
        activated == onBufferActivated(cleared, currentBuffId)
        single == /\ Cardinality({b \in Buffers : isOpen(activated.npp, b)}) = 1
                  /\ getCurrentViewId(activated.npp) = SUB_VIEW
    IN ScopedIncrementerEnd(
           IF single THEN [activated EXCEPT !.npp = GotoAnotherView(@)] ELSE activated)

\* DelayedActivate::operator()
DelayedActivateRun(pl) ==
    LET buffId == pl.delayedActivation.buffId
        k == getCompare(pl.compareList, buffId)
        pair == pl.compareList[k]
        otherFile == pair.file[OtherIdxByBuffId(pair, buffId)]
        shown == IF getDocId(pl.npp, OtherViewId(getCurrentViewId(pl.npp)))
                        # otherFile.sciDoc
                 THEN ScopedIncrementerEnd(
                          [ScopedIncrementer(pl) EXCEPT !.npp =
                              activateBufferID(activateBufferID(@, otherFile.buffId),
                                               buffId)])
                 ELSE pl
    IN IF k = 0 THEN pl ELSE [shown EXCEPT !.compareMode = TRUE]

\* onFileSaved, lines 2488-2508, for a pair without a temporary copy
onFileSavedPair(pl, buffId, RecompareOnSave) ==
    LET k == getCompare(pl.compareList, buffId)
        pair == pl.compareList[k]
        otherFile == pair.file[OtherIdxByBuffId(pair, buffId)]
        currentBuffId == getCurrentBuffId(pl.npp)
        pairIsActive == currentBuffId = buffId \/ currentBuffId = otherFile.buffId
        locked == ScopedIncrementer(pl)
    IN IF k = 0 THEN pl
       ELSE ScopedIncrementerEnd(
                [locked EXCEPT
                    !.npp = IF ~pairIsActive THEN activateBufferID(@, buffId) ELSE @,
                    !.delayedUpdate = onFileSaved(@, pairIsActive, RecompareOnSave)])

\* the notifications
SCN_PAINTED == "SCN_PAINTED"

SCN_UPDATEUI == "SCN_UPDATEUI"

SCN_MODIFIED == "SCN_MODIFIED"

SCN_ZOOM == "SCN_ZOOM"

NPPN_BUFFERACTIVATED == "NPPN_BUFFERACTIVATED"

NPPN_FILEBEFORECLOSE == "NPPN_FILEBEFORECLOSE"

NPPN_FILESAVED == "NPPN_FILESAVED"

SciCodes == {SCN_PAINTED, SCN_UPDATEUI, SCN_MODIFIED, SCN_ZOOM}

NppCodes == {NPPN_BUFFERACTIVATED, NPPN_FILEBEFORECLOSE, NPPN_FILESAVED}

\* the handler beNotified calls for a notification, with the lock not tested
HandlerOfUnlocked(pl, code, buffId) ==
    CASE code \in {SCN_PAINTED, SCN_UPDATEUI} ->
            IF /\ pl.compareMode
               /\ ~isPending(pl.delayedActivation)
               /\ ~isPending(pl.delayedClosure)
               /\ ~isPending(pl.delayedUpdate)
            THEN (IF code = SCN_PAINTED THEN "onSciPaint" ELSE "onSciUpdateUI")
            ELSE "none"
      [] code = NPPN_BUFFERACTIVATED ->
            IF pl.compareList # <<>> /\ ~isPending(pl.delayedClosure)
            THEN "onBufferActivated" ELSE "none"
      [] code = NPPN_FILEBEFORECLOSE ->
            IF pl.newCompare # <<>> /\ pl.newCompare[1].buffId = buffId
            THEN "newCompare.reset"
            ELSE IF pl.compareList # <<>>
            THEN "onFileBeforeClose" ELSE "none"
      [] code = NPPN_FILESAVED ->
            IF pl.compareList # <<>> THEN "onFileSaved" ELSE "none"
      [] code = SCN_MODIFIED ->
            IF pl.compareMode THEN "onSciModified" ELSE "none"
      [] code = SCN_ZOOM ->
            IF pl.compareMode THEN "onSciZoom" ELSE "none"

\* the handler beNotified calls for a notification, "none" when it is ignored
HandlerOf(pl, code, buffId) ==
    CASE code \in {SCN_PAINTED, SCN_UPDATEUI} ->
            IF /\ pl.compareMode /\ pl.notificationsLock = 0
               /\ ~isPending(pl.delayedActivation)
               /\ ~isPending(pl.delayedClosure)
               /\ ~isPending(pl.delayedUpdate)
            THEN (IF code = SCN_PAINTED THEN "onSciPaint" ELSE "onSciUpdateUI")
            ELSE "none"
      [] code = NPPN_BUFFERACTIVATED ->
            IF /\ pl.compareList # <<>> /\ pl.notificationsLock = 0
               /\ ~isPending(pl.delayedClosure)
            THEN "onBufferActivated" ELSE "none"
      [] code = NPPN_FILEBEFORECLOSE ->
            IF pl.newCompare # <<>> /\ pl.newCompare[1].buffId = buffId
            THEN "newCompare.reset"
            ELSE IF pl.compareList # <<>> /\ pl.notificationsLock = 0
            THEN "onFileBeforeClose" ELSE "none"
      [] code = NPPN_FILESAVED ->
            IF pl.compareList # <<>> /\ pl.notificationsLock = 0
            THEN "onFileSaved" ELSE "none"
      [] code = SCN_MODIFIED ->
            IF pl.compareMode /\ pl.notificationsLock = 0
            THEN "onSciModified" ELSE "none"
      [] code = SCN_ZOOM ->
            IF pl.compareMode /\ pl.notificationsLock = 0
            THEN "onSciZoom" ELSE "none"

\* beNotified; option is Settings.RecompareOnSave for a save and
\* Settings.UpdateOnChange for a modification
beNotified(pl, code, buffId, option) ==
    LET handler == HandlerOf(pl, code, buffId)
    IN CASE handler = "none" -> pl
         [] handler = "onSciPaint" -> pl
         [] handler = "onSciUpdateUI" -> syncViews(pl)
         [] handler = "onBufferActivated" -> onBufferActivated(pl, buffId)
         [] handler = "newCompare.reset" -> [pl EXCEPT !.newCompare = <<>>]
         [] handler = "onFileBeforeClose" -> onFileBeforeClosePair(pl, buffId)
         [] handler = "onFileSaved" -> onFileSavedPair(pl, buffId, option)
         [] handler = "onSciModified" ->
                IF option /\ getCompare(pl.compareList, getCurrentBuffId(pl.npp)) # 0
                THEN [pl EXCEPT !.delayedUpdate =
                        onSciModifiedUpdate(@, SCNotification(SC_MOD_INSERTTEXT, 0, 0))]
                ELSE pl
         [] handler = "onSciZoom" -> syncViews(pl)

\* the calls: pl is the plugin, call the compare in progress, last the last
\* call or notification with the lock it met, the handler a notification
\* reached while the lock was held, and the result of the engine
Called(op, lock, handler, cmpResult) ==
    [op |-> op, lock |-> lock, handler |-> handler, result |-> cmpResult]

Command(op) == Called(op, 0, "none", "none")

Notified(pl, code, buffId) ==
    Called("notification", pl.notificationsLock,
           IF pl.notificationsLock = 0 THEN "any" ELSE HandlerOf(pl, code, buffId), "none")

NppStates ==
    {npp \in [view : [Buffers -> ViewIds], active : [ViewIds -> 0..MaxBuffers],
              focus : ViewIds] :
        /\ npp.active[npp.focus] # 0
        /\ \A v \in ViewIds : npp.active[v] = 0 <=> OpenIn(npp, v) = {}
        /\ \A v \in ViewIds : npp.active[v] # 0 => npp.active[v] \in OpenIn(npp, v)}

Plugin(npp) ==
    [npp |-> npp, compareList |-> <<>>, newCompare |-> <<>>, notificationsLock |-> 0,
     compareMode |-> FALSE,
     delayedActivation |-> [pending |-> FALSE, buffId |-> 0],
     delayedClosure |-> [pending |-> FALSE, closedBuffs |-> <<>>],
     delayedUpdate |-> DelayedUpdate(0)]

PluginUnchanged ==
    UNCHANGED <<pc, args, docs, progress, cancelled, cmpInfo, doc1LineHashes,
                doc2LineHashes, i, alignPair, alignmentInfo, markers, result, hist>>

InitPlugin ==
    /\ pc = "plugin"
    /\ args = CHOOSE a \in CompareArgs : TRUE
    /\ docs = [v \in {MAIN_VIEW, SUB_VIEW} |-> EmptyDoc]
    /\ progress = FALSE
    /\ cancelled = FALSE
    /\ cmpInfo = NoCompareInfo
    /\ doc1LineHashes = <<>>
    /\ doc2LineHashes = <<>>
    /\ i = 0
    /\ alignPair = AlignmentPair
    /\ alignmentInfo = <<>>
    /\ markers = {}
    /\ result = "none"
    /\ hist = NoHistory
    /\ \E npp \in NppStates :
          blocks = [pl |-> Plugin(npp), call |-> NoCall, last |-> Command("call")]

Idle == pc = "plugin" /\ blocks.call.at = "idle"

\* the user shows another buffer
UserActivates ==
    /\ Idle
    /\ \E b \in Buffers :
          /\ isOpen(blocks.pl.npp, b)
          /\ b # getCurrentBuffId(blocks.pl.npp)
          /\ LET shown == [blocks.pl EXCEPT !.npp = activateBufferID(@, b)]
             IN blocks' = [blocks EXCEPT
                    !.pl = beNotified(shown, NPPN_BUFFERACTIVATED, b, FALSE),
                    !.last = Notified(shown, NPPN_BUFFERACTIVATED, b)]
    /\ PluginUnchanged

\* the user moves the current buffer to the other view
UserMoves ==
    /\ Idle
    /\ LET b == getCurrentBuffId(blocks.pl.npp)
           moved == [blocks.pl EXCEPT !.npp = GotoAnotherView(@)]
       IN blocks' = [blocks EXCEPT
              !.pl = beNotified(moved, NPPN_BUFFERACTIVATED, b, FALSE),
              !.last = Notified(moved, NPPN_BUFFERACTIVATED, b)]
    /\ PluginUnchanged

\* the user closes a buffer; the last buffer is not closed, as Notepad++
\* would put a new one in its place
UserCloses ==
    /\ Idle
    /\ \E b \in Buffers :
          /\ isOpen(blocks.pl.npp, b)
          /\ Cardinality({c \in Buffers : isOpen(blocks.pl.npp, c)}) > 1
          /\ LET told == beNotified(blocks.pl, NPPN_FILEBEFORECLOSE, b, FALSE)
                 closed == [told EXCEPT !.npp = CloseBuffer(@, b)]
                 current == getCurrentBuffId(closed.npp)
             IN blocks' = [blocks EXCEPT
                    !.pl = IF current # getCurrentBuffId(told.npp)
                           THEN beNotified(closed, NPPN_BUFFERACTIVATED, current, FALSE)
                           ELSE closed,
                    !.last = Notified(blocks.pl, NPPN_FILEBEFORECLOSE, b)]
    /\ PluginUnchanged

\* the user saves a buffer
UserSaves ==
    /\ Idle
    /\ \E b \in Buffers, RecompareOnSave \in BOOLEAN :
          /\ isOpen(blocks.pl.npp, b)
          /\ blocks' = [blocks EXCEPT
                !.pl = beNotified(blocks.pl, NPPN_FILESAVED, b, RecompareOnSave),
                !.last = Notified(blocks.pl, NPPN_FILESAVED, b)]
    /\ PluginUnchanged

\* the editor reports a change of the text, the zoom or the display
SciNotifies ==
    /\ Idle
    /\ \E code \in SciCodes, UpdateOnChange \in BOOLEAN :
          blocks' = [blocks EXCEPT
              !.pl = beNotified(blocks.pl, code, getCurrentBuffId(blocks.pl.npp),
                                UpdateOnChange),
              !.last = Notified(blocks.pl, code, getCurrentBuffId(blocks.pl.npp))]
    /\ PluginUnchanged

\* a notification that arrives while the engine runs within compare()
NestedNotifies ==
    /\ pc = "plugin"
    /\ blocks.call.at = "engine"
    /\ \E code \in SciCodes \cup NppCodes, b \in Buffers :
          /\ code \in SciCodes => b = getCurrentBuffId(blocks.pl.npp)
          /\ blocks' = [blocks EXCEPT
                !.pl = beNotified(blocks.pl, code, b, TRUE),
                !.last = Notified(blocks.pl, code, b)]
    /\ PluginUnchanged

SetAsFirstCmd ==
    /\ Idle
    /\ \E OldFileIsFirst \in BOOLEAN :
          blocks' = [blocks EXCEPT !.pl = SetAsFirst(blocks.pl, OldFileIsFirst),
                                   !.last = Command("call")]
    /\ PluginUnchanged

\* a compare that adds a pair needs room in the list
RoomToCompare ==
    \/ Len(blocks.pl.compareList) < MaxPairs
    \/ getCompare(blocks.pl.compareList, getCurrentBuffId(blocks.pl.npp)) # 0

\* CompareWhole and CompareSelectedLines up to the run of the engine
CompareCmd ==
    /\ Idle
    /\ RoomToCompare
    /\ \E selectionCompare \in BOOLEAN, selectionsValid \in BOOLEAN,
          encodingOK \in BOOLEAN, next \in Buffers :
          LET begun == compareBegin(blocks.pl, selectionCompare, selectionsValid,
                                    encodingOK, next)
          IN /\ selectionsValid \/ selectionCompare
             /\ next = TabNextOf(blocks.pl.npp, next)
             /\ blocks' = [pl |-> begun.pl, call |-> begun.call,
                        last |-> Called("compare", 0, "none",
                                        IF begun.call.at = "idle" THEN "returned"
                                        ELSE "none")]
    /\ PluginUnchanged

\* the engine returns and compare() handles its result; choiceYes is the
\* answer to the prompt of a match, GotoFirstDiff the setting read after a
\* repeated compare with a mismatch; a buffer stays open
CompareReturns ==
    /\ pc = "plugin"
    /\ blocks.call.at = "engine"
    /\ \E cmpResult \in {COMPARE_MISMATCH, COMPARE_MATCH, COMPARE_CANCELLED, COMPARE_ERROR},
          choiceYes \in BOOLEAN, GotoFirstDiff \in BOOLEAN :
          LET ended == compareEnd(blocks.pl, blocks.call, cmpResult, choiceYes,
                                  GotoFirstDiff)
          IN /\ choiceYes => cmpResult = COMPARE_MATCH
             /\ GotoFirstDiff => cmpResult = COMPARE_MISMATCH /\ blocks.call.recompare
             /\ getCurrentBuffId(ended.npp) # 0
             /\ blocks' = [pl |-> ended, call |-> NoCall,
                           last |-> Called("compare", 0, "none", cmpResult)]
    /\ PluginUnchanged

ClearActiveCmd ==
    /\ Idle
    /\ blocks' = [blocks EXCEPT !.pl = ClearActiveCompare(blocks.pl),
                                !.last = Command("call")]
    /\ PluginUnchanged

ClearAllCmd ==
    /\ Idle
    /\ blocks' = [blocks EXCEPT !.pl = ClearAllCompares(blocks.pl),
                                !.last = Command("call")]
    /\ PluginUnchanged

ActivationFires ==
    /\ Idle
    /\ isPending(blocks.pl.delayedActivation)
    /\ blocks' = [blocks EXCEPT
          !.pl = [DelayedActivateRun([@ EXCEPT !.delayedActivation = cancel(@)])
                    EXCEPT !.delayedActivation = cancelActivation(@)],
          !.last = Command("call")]
    /\ PluginUnchanged

ClosureFires ==
    /\ Idle
    /\ isPending(blocks.pl.delayedClosure)
    /\ blocks' = [blocks EXCEPT
          !.pl = DelayedCloseRun([@ EXCEPT !.delayedClosure = cancel(@)]),
          !.last = Command("call")]
    /\ PluginUnchanged

\* DelayedUpdate::operator(): a full compare, or a compare of the changed lines
UpdateFires ==
    /\ Idle
    /\ isPending(blocks.pl.delayedUpdate)
    /\ RoomToCompare
    /\ LET ran == [blocks.pl EXCEPT !.delayedUpdate = DelayedUpdateRun(cancel(@))]
       IN IF blocks.pl.delayedUpdate.fullCompare
          THEN \E next \in Buffers :
                  LET begun == compareBegin(ran, FALSE, TRUE, TRUE, next)
                  IN /\ next = TabNextOf(blocks.pl.npp, next)
                     /\ blocks' = [pl |-> begun.pl, call |-> begun.call,
                                last |-> Called("compare", 0, "none",
                                                IF begun.call.at = "idle" THEN "returned"
                                                ELSE "none")]
          ELSE blocks' = [blocks EXCEPT !.pl = syncViews(ran),
                                        !.last = Command("call")]
    /\ PluginUnchanged

\* the compare list under the commands of the plugin, with a user who shows
\* buffers and moves them between the views
NextPlugin ==
    \/ UserActivates
    \/ UserMoves
    \/ SetAsFirstCmd
    \/ CompareCmd
    \/ CompareReturns
    \/ ClearActiveCmd
    \/ ClearAllCmd
    \/ ActivationFires

SpecPlugin == InitPlugin /\ [][NextPlugin]_vars

\* the notifications and the delayed works around compare(), with a user who
\* shows, closes, saves and edits buffers
NextNotify ==
    \/ UserActivates
    \/ UserCloses
    \/ UserSaves
    \/ SciNotifies
    \/ NestedNotifies
    \/ CompareCmd
    \/ CompareReturns
    \/ ActivationFires
    \/ ClosureFires
    \/ UpdateFires

SpecNotify == InitPlugin /\ [][NextNotify]_vars

\* ================================================================== claims
\* the blocks that apply to a side: MATCH and the ONLY_IN type of the side
OnSide(bd, type) == bd.type = DIFF_MATCH \/ bd.type = type

\* the total length of the blocks of a side among the first k blocks
RECURSIVE SideLen(_, _, _)
SideLen(diffBlocks, k, type) ==
    IF k = 0 THEN 0
    ELSE SideLen(diffBlocks, k - 1, type)
         + (IF OnSide(diffBlocks[k], type) THEN diffBlocks[k].len ELSE 0)

\* C1: when a compare has produced diff blocks, the MATCH and ONLY_IN_A blocks
\* add up to the number of lines of the section of document A, the MATCH and
\* ONLY_IN_B blocks to that of document B, and on each side every block starts
\* where the blocks of that side before it end
C1_Partition ==
    cmpInfo.diffBlocks # <<>> =>
        LET bs == cmpInfo.diffBlocks
        IN  /\ SideLen(bs, Len(bs), DIFF_IN_1) = hist.sec1.len
            /\ SideLen(bs, Len(bs), DIFF_IN_2) = hist.sec2.len
            /\ \A k \in 1..Len(bs) :
                   /\ bs[k].len > 0
                   /\ bs[k].type \in {DIFF_MATCH, DIFF_IN_1}
                        => bs[k].off = hist.sec1.off + SideLen(bs, k - 1, DIFF_IN_1)
                   /\ bs[k].type = DIFF_IN_2
                        => bs[k].off = hist.sec2.off + SideLen(bs, k - 1, DIFF_IN_2)

\* a compare has produced a MATCH block, an ONLY_IN_A block and an ONLY_IN_B block
C1_Witness ==
    /\ \E k \in 1..Len(cmpInfo.diffBlocks) : cmpInfo.diffBlocks[k].type = DIFF_MATCH
    /\ \E k \in 1..Len(cmpInfo.diffBlocks) : cmpInfo.diffBlocks[k].type = DIFF_IN_1
    /\ \E k \in 1..Len(cmpInfo.diffBlocks) : cmpInfo.diffBlocks[k].type = DIFF_IN_2

\* C2: the block that a pair reference points to points back, and no pair
\* reference is assigned more than once in a compare
C2_PairsReciprocal ==
    \A k \in 1..Len(cmpInfo.diffBlocks) :
        /\ hist.pairWrites[k] <= 1
        /\ cmpInfo.diffBlocks[k].matchedDiff # 0 =>
              /\ cmpInfo.diffBlocks[k].matchedDiff \in 1..Len(cmpInfo.diffBlocks)
              /\ cmpInfo.diffBlocks[k].matchedDiff # k
              /\ cmpInfo.diffBlocks[cmpInfo.diffBlocks[k].matchedDiff].matchedDiff = k

\* the pairing phase is over and has paired two blocks
C2_Witness ==
    /\ hist.pairingDone
    /\ \E k \in 1..Len(cmpInfo.diffBlocks) : cmpInfo.diffBlocks[k].matchedDiff # 0

\* C5: once a checkpoint has reported the cancellation no later phase does any
\* work and the compare returns CANCELLED; when the second checkpoint reports
\* it, no diff block has been computed
C5_CancelStops ==
    /\ ~hist.lateWork
    /\ hist.reportedAt # 0 /\ pc = "done" => result = COMPARE_CANCELLED
    /\ hist.reportedAt = 2 /\ pc = "done" =>
          /\ result = COMPARE_CANCELLED
          /\ hist.diffSize = -1
          /\ cmpInfo.diffBlocks = <<>>

\* the second checkpoint of a compare has reported the cancellation and the
\* compare has returned
C5_Witness == pc = "done" /\ hist.reportedAt = 2 /\ result = COMPARE_CANCELLED

\* C6: when a compare has returned CANCELLED the alignment list holds no
\* entry and no marker has been added to a view
C6_NothingExposed ==
    pc = "done" /\ result = COMPARE_CANCELLED => alignmentInfo = <<>> /\ markers = {}

\* C7: an exception raised in runCompare is caught in compareViews, which
\* then returns ERROR; ERROR is returned in no other case; the progress dialog
\* is closed on both paths
C7_ExceptionsCaught ==
    /\ ~hist.escaped
    /\ pc = "done" =>
          /\ result = COMPARE_ERROR <=> hist.thrown # "none"
          /\ ~progress
          /\ hist.closed = 1

\* an exception that is no std::exception has been thrown under an open
\* progress dialog and compareViews has returned
C7_Witness ==
    pc = "done" /\ hist.thrown = "unknown" /\ hist.opened = 1 /\ result = COMPARE_ERROR

\* C8: MATCH is returned exactly when both checkpoints after the hashing have
\* passed and the line diff has yielded no block; MISMATCH only after a block
\* was produced and pairing and assembly ran to their end with no cancellation
\* reported; the result is one of the four
C8_Results ==
    pc = "done" =>
        /\ result \in {COMPARE_MATCH, COMPARE_MISMATCH, COMPARE_CANCELLED, COMPARE_ERROR}
        /\ result = COMPARE_MATCH <=> hist.passed = 2 /\ hist.diffSize = 0
        /\ result = COMPARE_MISMATCH =>
              /\ hist.diffSize >= 1
              /\ hist.pairingDone
              /\ hist.assemblyDone
              /\ hist.reportedAt = 0

\* a compare under an open progress dialog has returned MISMATCH
C8_Witness ==
    pc = "done" /\ result = COMPARE_MISMATCH /\ hist.opened = 1 /\ hist.checks >= 6

\* the lines of the section of a document, as the line diff saw them
SectionLines(doc, section) ==
    Vector([n \in 1..section.len |-> DocLine(docs[doc.view], n - 1 + section.off)])

\* the line diff has run on two sections of the same lines
SameSections ==
    /\ hist.diffSize # -1
    /\ SectionLines(cmpInfo.doc1, hist.sec1) = SectionLines(cmpInfo.doc2, hist.sec2)

FoldedLine(line) ==
    LET cased == IF args.settings.IgnoreCase THEN toLowerCase(line) ELSE line
    IN  IF args.settings.IgnoreSpaces
        THEN SelectSeq(cased, LAMBDA c : ~IsSpaceOrTab(c))
        ELSE cased

FoldedLines(lines) == Vector([n \in 1..Len(lines) |-> FoldedLine(lines[n])])

\* the line diff has run on two sections whose lines are equal pairwise
\* once folded
EqualWhenFolded ==
    /\ hist.diffSize # -1
    /\ FoldedLines(SectionLines(cmpInfo.doc1, hist.sec1))
         = FoldedLines(SectionLines(cmpInfo.doc2, hist.sec2))

\* C10: the compare of two sections whose lines are pairwise equal under the
\* folding of the settings ends with MATCH and never with MISMATCH
C10_FoldedMatch ==
    EqualWhenFolded =>
        /\ result # COMPARE_MISMATCH
        /\ pc = "done" => result = COMPARE_MATCH

\* two sections that differ as text and are equal without their spaces have
\* been compared with the spaces ignored
C10_Witness ==
    /\ EqualWhenFolded
    /\ pc = "done"
    /\ args.settings.IgnoreSpaces
    /\ ~args.settings.IgnoreCase
    /\ hist.sec1.len >= 1
    /\ SectionLines(cmpInfo.doc1, hist.sec1) # SectionLines(cmpInfo.doc2, hist.sec2)

\* what compareBlocks returned, when it has
Returned == blocks.state = "returned" /\ blocks.ret.ret

Lines1 == 0..(blocks.ret.pChunk1.lineCount - 1)

Lines2 == 0..(blocks.ret.pChunk2.lineCount - 1)

Mapping1(a) == At0(blocks.ret.pChunk1.lineMappings, a)

Mapping2(b) == At0(blocks.ret.pChunk2.lineMappings, b)

\* matchCount(lineA, lineB) * 100 / alphanumericWordCount(lineB), -1 where
\* lineB has no alphanumeric word
Convergence(a, b) ==
    IF At0(blocks.ret.line2Len, b) = 0 THEN -1
    ELSE (At0(At0(blocks.ret.lineWordsMatch, a), b) * 100) \div At0(blocks.ret.line2Len, b)

\* the block that ended in the first role
FirstBlock == IF blocks.ret.first = 1 THEN blocks.ret.blockDiff1 ELSE blocks.ret.blockDiff2

\* C3: after compareBlocks the line mapping is injective in both directions,
\* and line a of chunk 1 is mapped to line b of chunk 2 exactly when line b of
\* chunk 2 is mapped to line a of chunk 1
C3_MappingInjective ==
    Returned =>
        /\ \A a \in Lines1 : \A b \in Lines2 : Mapping1(a) = b <=> Mapping2(b) = a
        /\ \A a1 \in Lines1 : \A a2 \in Lines1 :
               Mapping1(a1) # -1 /\ Mapping1(a1) = Mapping1(a2) => a1 = a2
        /\ \A b1 \in Lines2 : \A b2 \in Lines2 :
               Mapping2(b1) # -1 /\ Mapping2(b1) = Mapping2(b2) => b1 = b2
        /\ \A a \in Lines1 : Mapping1(a) \in {-1} \cup Lines2
        /\ \A b \in Lines2 : Mapping2(b) \in {-1} \cup Lines1

\* compareBlocks has mapped two lines of a chunk to two lines of the other
C3_Witness ==
    /\ Returned
    /\ \E a1 \in Lines1 : \E a2 \in Lines1 :
           a1 # a2 /\ Mapping1(a1) # -1 /\ Mapping1(a2) # -1

\* C4: a pair of lines is mapped, and a changed line reported, only if its
\* convergence is at least 50; a line of chunk 1 with no candidate of
\* convergence 50 or more is unmapped on both chunks
C4_MappedOnlyIfConvergent ==
    Returned =>
        /\ \A a \in Lines1 :
               Mapping1(a) # -1 => Convergence(a, Mapping1(a)) >= ConvergenceThreshold
        /\ \A k \in 1..Len(FirstBlock.changedLines) :
               /\ Mapping1(FirstBlock.changedLines[k].line) # -1
               /\ Convergence(FirstBlock.changedLines[k].line,
                              Mapping1(FirstBlock.changedLines[k].line)) >= ConvergenceThreshold
        /\ \A a \in Lines1 :
               (\A b \in Lines2 : Convergence(a, b) < ConvergenceThreshold)
                   => Mapping1(a) = -1 /\ \A b \in Lines2 : Mapping2(b) # a

\* compareBlocks has mapped a pair of convergence exactly 50 and has left
\* unmapped a line whose best candidate has a convergence between 1 and 49
C4_Witness ==
    /\ Returned
    /\ \E a \in Lines1 : Mapping1(a) # -1 /\ Convergence(a, Mapping1(a)) = ConvergenceThreshold
    /\ \E a \in Lines1 :
           /\ Mapping1(a) = -1
           /\ \E b \in Lines2 : Convergence(a, b) > 0
           /\ \A b \in Lines2 : Convergence(a, b) < ConvergenceThreshold

\* C11 as stated: a compare in which neither the text layer nor an allocation
\* of the working data has failed does not return ERROR, whatever the documents
\* and whatever the sections of start line and length >= 0
C11_NeverError ==
    pc = "done" /\ ~hist.external => result # COMPARE_ERROR

\* the line diff has run, block-based, on A = [L1, L2, L3] and its rotation
\* B = [L3, L1, L2], three different lines
IsRotation ==
    /\ hist.diffSize # -1
    /\ detectMovesOf(args.settings) = BLOCK_BASED
    /\ Len(doc1LineHashes) = 3
    /\ Cardinality({doc1LineHashes[n] : n \in 1..3}) = 3
    /\ doc2LineHashes = <<doc1LineHashes[3], doc1LineHashes[1], doc1LineHashes[2]>>

\* no block holds a changed line that is marked as moved
NoMovedLineChanged ==
    \A k \in 1..Len(cmpInfo.diffBlocks) :
        \A c \in 1..Len(cmpInfo.diffBlocks[k].changedLines) :
            isMoved(cmpInfo.diffBlocks[k], cmpInfo.diffBlocks[k].changedLines[c].line) = NOT_MOVED

RECURSIVE ConcatRuns(_, _, _, _)
ConcatRuns(script, a, b, type) ==
    IF script = <<>> THEN <<>>
    ELSE (IF OnSide(Head(script), type) THEN BlockElems(a, b, Head(script)) ELSE <<>>)
         \o ConcatRuns(Tail(script), a, b, type)

\* the total length of the ONLY_IN runs of a script
RECURSIVE EditLength(_)
EditLength(script) ==
    IF script = <<>> THEN 0
    ELSE (IF Head(script).type = DIFF_MATCH THEN 0 ELSE Head(script).len)
         + EditLength(Tail(script))

\* the length of a longest common subsequence
RECURSIVE LcsLen(_, _)
LcsLen(a, b) ==
    IF a = <<>> \/ b = <<>> THEN 0
    ELSE IF Head(a) = Head(b) THEN 1 + LcsLen(Tail(a), Tail(b))
    ELSE LET la == LcsLen(Tail(a), b)
             lb == LcsLen(a, Tail(b))
         IN  IF la >= lb THEN la ELSE lb

\* the script recovers both sequences and is a shortest one
IsShortestScript(script, a, b) ==
    /\ ConcatRuns(script, a, b, DIFF_IN_1) = a
    /\ ConcatRuns(script, a, b, DIFF_IN_2) = b
    /\ EditLength(script) = Len(a) + Len(b) - 2 * LcsLen(a, b)

DiffReturned == pc = "DiffCalc" /\ blocks.state = "returned"

FooCall ==
    /\ blocks.doc1 = <<FooBar>> /\ blocks.doc2 = <<FooBaz>>
    /\ blocks.blockDiff1.moves = <<NOT_MOVED>> /\ blocks.blockDiff2.moves = <<NOT_MOVED>>

\* the block that ended in the second role
SecondBlock == IF blocks.ret.first = 1 THEN blocks.ret.blockDiff2 ELSE blocks.ret.blockDiff1

\* the lines of chunk 1 that are mapped to a line of other words
ChangedLines1 ==
    {a \in Lines1 :
        /\ Mapping1(a) # -1
        /\ WordHashes(LineWordRange(blocks.ret.pChunk1, a))
             # WordHashes(LineWordRange(blocks.ret.pChunk2, Mapping1(a)))}

\* the word diff of a pair of lines, the line of fewer words first
PairDiff(words1, words2) ==
    IF Len(words1) > Len(words2) THEN WordDiff(words2, words1) ELSE WordDiff(words1, words2)

\* the type of the runs of the first line of a pair in its word diff
OwnType(words1, words2) == IF Len(words1) > Len(words2) THEN DIFF_IN_2 ELSE DIFF_IN_1

\* the type of the runs of the second line of the pair in that word diff
OtherType(words1, words2) == IF Len(words1) > Len(words2) THEN DIFF_IN_1 ELSE DIFF_IN_2

\* the changes are one per run of the type, each from the offset of the first
\* word of its run to the end of the last word of its run
OnePerRun(changes, words, lineDiff, type) ==
    LET runs == SelectSeq(lineDiff, LAMBDA ld : ld.type = type)
    IN  /\ Len(changes) = Len(runs)
        /\ \A r \in 1..Len(runs) :
               /\ changes[r].off = At0(words, runs[r].off).pos
               /\ changes[r].off + changes[r].len
                    = At0(words, runs[r].off + runs[r].len - 1).pos
                      + At0(words, runs[r].off + runs[r].len - 1).length
               /\ changes[r].len >= 1
        /\ \A r \in 1..(Len(changes) - 1) :
               changes[r].off + changes[r].len <= changes[r + 1].off

\* the words of a line that no change covers
Unchanged(changes, words) ==
    SelectSeq(words, LAMBDA w :
        \A r \in 1..Len(changes) :
            w.pos + w.length <= changes[r].off \/ w.pos >= changes[r].off + changes[r].len)

\* C14: the changed lines of the two blocks are the mapped pairs of lines of
\* different words, in the order of the lines; each side of a pair has one
\* Change per run of its own type in the word diff of the pair, from the
\* offset of the first word of the run to the end of its last word; the
\* words outside the changes are the words of the MATCH runs, the same on
\* both sides; "foo bar" against "foo baz" gives one Change [4,7) on each side
C14_OneChangePerRun ==
    Returned =>
        /\ Len(FirstBlock.changedLines) = Cardinality(ChangedLines1)
        /\ Len(SecondBlock.changedLines) = Cardinality(ChangedLines1)
        /\ \A k \in 1..Len(FirstBlock.changedLines) :
               LET cl1 == FirstBlock.changedLines[k]
                   cl2 == SecondBlock.changedLines[k]
                   words1 == LineWordRange(blocks.ret.pChunk1, cl1.line)
                   words2 == LineWordRange(blocks.ret.pChunk2, cl2.line)
               IN  /\ cl1.line \in ChangedLines1
                   /\ cl2.line = Mapping1(cl1.line)
                   /\ k > 1 => FirstBlock.changedLines[k - 1].line < cl1.line
                   /\ OnePerRun(cl1.changes, words1, PairDiff(words1, words2),
                                 OwnType(words1, words2))
                   /\ OnePerRun(cl2.changes, words2, PairDiff(words1, words2),
                                 OtherType(words1, words2))
                   /\ WordHashes(Unchanged(cl1.changes, words1))
                        = WordHashes(Unchanged(cl2.changes, words2))
        /\ FooCall =>
               /\ blocks.ret.blockDiff1.changedLines
                    = << [line |-> 0, changes |-> << [off |-> 4, len |-> 3] >>] >>
               /\ blocks.ret.blockDiff2.changedLines
                    = << [line |-> 0, changes |-> << [off |-> 4, len |-> 3] >>] >>

\* compareBlocks has returned the changed lines of "foo bar" against "foo baz"
C14_Witness ==
    /\ Returned
    /\ FooCall
    /\ ~blocks.settings.IgnoreSpaces
    /\ Len(blocks.ret.blockDiff1.changedLines) = 1

Hashed == pc = "text" /\ blocks.state \in {"hashed", "tokenized"}

Tokenized == pc = "text" /\ blocks.state = "tokenized"

\* the line without its spaces and tabs
Unspaced(line) == SelectSeq(line, LAMBDA c : ~IsSpaceOrTab(c))

\* the line with its letters A-Z replaced by a-z
Lowered(line) ==
    Vector([n \in 1..Len(line) |-> IF line[n] \in 65..90 THEN line[n] + 32 ELSE line[n]])

\* C15: with ignoreCase two lines that differ in letter case only have the
\* same hash, with ignoreSpaces two lines that differ in their spaces and tabs
\* only have the same hash, with both two lines that differ in both only;
\* with neither, two different lines short enough for the hash not to wrap
\* (four characters) have different hashes
C15_FoldingInvariant ==
    Hashed =>
        LET l1 == blocks.doc[1]
            l2 == blocks.doc[2]
            same == blocks.lineHashes[1] = blocks.lineHashes[2]
        IN  /\ blocks.settings.IgnoreCase /\ Lowered(l1) = Lowered(l2) => same
            /\ blocks.settings.IgnoreSpaces /\ Unspaced(l1) = Unspaced(l2) => same
            /\ blocks.settings.IgnoreCase /\ blocks.settings.IgnoreSpaces
                  /\ Unspaced(Lowered(l1)) = Unspaced(Lowered(l2)) => same
            /\ ~blocks.settings.IgnoreCase /\ ~blocks.settings.IgnoreSpaces
                  /\ l1 # l2 /\ Len(l1) <= 4 /\ Len(l2) <= 4 => ~same

\* two lines of six or more characters that differ in case only have been
\* hashed with ignoreCase
C15_Witness ==
    /\ Hashed
    /\ blocks.settings.IgnoreCase /\ ~blocks.settings.IgnoreSpaces
    /\ blocks.doc[1] # blocks.doc[2]
    /\ Len(blocks.doc[1]) >= 6
    /\ Lowered(blocks.doc[1]) = Lowered(blocks.doc[2])

\* a 32-bit value as <<its top 7 bits, its low 25 bits>>: the rotation by 7
\* moves the top 7 bits to the bottom, and the character is added modulo 2^32
FoldStep(h, c) ==
    LET low == (h[2] % 262144) * 128 + h[1] + c
    IN  << ((h[2] \div 262144) + (low \div 33554432)) % 128, low % 33554432 >>

\* the left fold h0 = 0, hi = ci + rotateLeft(h(i-1), 7) over the characters
RECURSIVE Fold(_, _)
Fold(chars, h) ==
    IF chars = <<>> THEN h ELSE Fold(Tail(chars), FoldStep(h, Head(chars)))

\* <<top 7 bits, low 25 bits>> as <<high 16 bits, low 16 bits>>
Halves(h) == << h[1] * 512 + (h[2] \div 65536), h[2] % 65536 >>

\* the characters of a line after the folding of the settings of the call
CasedLine(line) == IF blocks.settings.IgnoreCase THEN Lowered(line) ELSE line

HashedChars(line) ==
    IF blocks.settings.IgnoreSpaces THEN Unspaced(CasedLine(line)) ELSE CasedLine(line)

\* C16: the hash of a line is the left fold h0 = 0, hi = ci + rotateLeft(h(i-1), 7)
\* modulo 2^32 over its characters after the case folding and without the
\* spaces and tabs that ignoreSpaces skips; the hash of an empty line is 0;
\* the hash of a Word is the same fold over the characters of the word
C16_HashIsFold ==
    /\ Hashed =>
          \A n \in 1..Len(blocks.doc) :
              /\ blocks.lineHashes[n] = Halves(Fold(HashedChars(blocks.doc[n]), <<0, 0>>))
              /\ blocks.doc[n] = <<>> => blocks.lineHashes[n] = <<0, 0>>
    /\ Tokenized =>
          \A k \in 1..Len(blocks.chunk.words) :
              LET w == blocks.chunk.words[k]
              IN  w.hash = Halves(Fold(SubSeq(CasedLine(blocks.doc[w.line + 1]),
                                              w.pos + 1, w.pos + w.length), <<0, 0>>))

\* an empty line and a line with a word of six or more characters, over which
\* the rotation carries bits from the top to the bottom, have been hashed and
\* tokenized
C16_Witness ==
    /\ Tokenized
    /\ blocks.doc[2] = <<>>
    /\ \E k \in 1..Len(blocks.chunk.words) : blocks.chunk.words[k].length >= 6

\* the class of character p (0-based) of a line
ClassAt(line, p) == getCharType(At0(line, p))

\* the places where a maximal run of characters of one class starts
RunStarts(line) ==
    {p \in 0..(Len(line) - 1) : p = 0 \/ ClassAt(line, p - 1) # ClassAt(line, p)}

\* the word covers a maximal run of characters of its class in the line
IsMaximalRun(line, w) ==
    /\ w.length >= 1
    /\ w.pos \in RunStarts(line)
    /\ \A p \in w.pos..(w.pos + w.length - 1) : ClassAt(line, p) = w.type
    /\ w.pos + w.length = Len(line) \/ ClassAt(line, w.pos + w.length) # w.type

\* the words of line n (0-based) of the tokenized chunk
WordsOfLine(n) == LineWordRange(blocks.chunk, n)

\* the word ranges of the lines follow each other and cover the words of the chunk
RangesPartition ==
    /\ At0(blocks.chunk.lineStartWordIdx, 0) = 0
    /\ At0(blocks.chunk.lineEndWordIdx, blocks.chunk.lineCount - 1) = Len(blocks.chunk.words)
    /\ \A n \in 0..(blocks.chunk.lineCount - 1) :
           /\ At0(blocks.chunk.lineStartWordIdx, n) <= At0(blocks.chunk.lineEndWordIdx, n)
           /\ n > 0 => At0(blocks.chunk.lineStartWordIdx, n) = At0(blocks.chunk.lineEndWordIdx, n - 1)
           /\ \A k \in 1..Len(WordsOfLine(n)) : WordsOfLine(n)[k].line = n

\* C17: without ignoreSpaces the words of every line are its maximal runs of
\* characters of one class: the first starts at offset 0, each starts where
\* the one before it ends and is of another class, the lengths add up to the
\* length of the line; the word ranges of the lines follow each other and
\* cover the words of the chunk; an empty line has no word
C17_WordsAreRuns ==
    Tokenized /\ ~blocks.settings.IgnoreSpaces =>
        /\ RangesPartition
        /\ \A n \in 0..(blocks.chunk.lineCount - 1) :
               LET line == At0(blocks.doc, n)
                   ws == WordsOfLine(n)
               IN  /\ line = <<>> => ws = <<>>
                   /\ Len(ws) = Cardinality(RunStarts(line))
                   /\ \A k \in 1..Len(ws) : IsMaximalRun(line, ws[k])
                   /\ ws # <<>> => ws[1].pos = 0
                                   /\ ws[Len(ws)].pos + ws[Len(ws)].length = Len(line)
                   /\ \A k \in 1..(Len(ws) - 1) :
                          /\ ws[k + 1].pos = ws[k].pos + ws[k].length
                          /\ ws[k + 1].type # ws[k].type

\* a line of three words, the second a space word, then an empty line have
\* been tokenized without ignoreSpaces
C17_Witness ==
    /\ Tokenized /\ ~blocks.settings.IgnoreSpaces
    /\ blocks.doc[2] = <<>>
    /\ Len(WordsOfLine(0)) = 3
    /\ WordsOfLine(0)[2].type = SPACECHAR /\ WordsOfLine(0)[2].length = 2

\* C18: with ignoreSpaces no word of the chunk is a space word, and the words
\* of every line are its maximal runs of characters of the two other
\* classes, in order, each with its own offset and length in the line: two
\* alphanumeric runs with only spaces or tabs between them are two words
C18_SpacesAreBoundaries ==
    Tokenized /\ blocks.settings.IgnoreSpaces =>
        /\ RangesPartition
        /\ \A k \in 1..Len(blocks.chunk.words) : blocks.chunk.words[k].type # SPACECHAR
        /\ \A n \in 0..(blocks.chunk.lineCount - 1) :
               LET line == At0(blocks.doc, n)
                   ws == WordsOfLine(n)
               IN  /\ Len(ws) = Cardinality({p \in RunStarts(line) : ClassAt(line, p) # SPACECHAR})
                   /\ \A k \in 1..Len(ws) : IsMaximalRun(line, ws[k])
                   /\ \A k \in 1..(Len(ws) - 1) : ws[k].pos + ws[k].length <= ws[k + 1].pos

\* a line of two alphanumeric runs with two spaces between them has been
\* tokenized with ignoreSpaces into two words
C18_Witness ==
    /\ Tokenized /\ blocks.settings.IgnoreSpaces
    /\ Len(WordsOfLine(0)) = 2
    /\ WordsOfLine(0)[1].type = ALPHANUMCHAR /\ WordsOfLine(0)[2].type = ALPHANUMCHAR
    /\ WordsOfLine(0)[2].pos = WordsOfLine(0)[1].pos + WordsOfLine(0)[1].length + 2

\* what C19 states of one call of computeLineHashes: req is the requested
\* section, sec the section afterwards, hashes the returned vector
HashedSection(req, sec, lineCount, hashes) ==
    /\ sec.off = req.off
    /\ sec.len = IF req.len <= 0 \/ req.off + req.len > lineCount
                 THEN lineCount - req.off ELSE req.len
    /\ Len(hashes) = sec.len
    /\ 0 <= sec.len
    /\ sec.off + sec.len <= lineCount

\* C19 as stated, for the calls that the user does not cancel:
\* computeLineHashes returns, with the section replaced by the rest of the
\* document from its start line when its length is not positive or it ends
\* past the last line and unchanged otherwise, with len hashes, 0 <= len and
\* off + len <= lineCount
C19_SectionNormalised ==
    /\ ~(pc = "catch" /\ ~hist.external)
    /\ pc = "advance1" /\ ~Reports =>
          HashedSection(args.mainViewSection, cmpInfo.doc1.section,
                        LineCount(docs[MAIN_VIEW]), doc1LineHashes)
    /\ pc = "advance2" /\ ~Reports =>
          HashedSection(args.subViewSection, cmpInfo.doc2.section,
                        LineCount(docs[SUB_VIEW]), doc2LineHashes)

\* C20: from one entry of the alignment list to the next the line number of
\* neither side decreases, while the list is built and in the list of the
\* completed compare
C20_AlignmentMonotonic ==
    \A k \in 1..(Len(alignmentInfo) - 1) :
        /\ alignmentInfo[k].main.line <= alignmentInfo[k + 1].main.line
        /\ alignmentInfo[k].sub.line <= alignmentInfo[k + 1].sub.line

\* a compare has run to its end with a changed line in its alignment list,
\* and the line numbers of both sides grow along the list
C20_Witness ==
    /\ pc = "done" /\ result = COMPARE_MISMATCH
    /\ Len(alignmentInfo) >= 4
    /\ \E k \in 1..Len(alignmentInfo) : alignmentInfo[k].main.diffMask = MARKER_MASK_CHANGED
    /\ alignmentInfo[1].main.line < alignmentInfo[Len(alignmentInfo)].main.line
    /\ alignmentInfo[1].sub.line < alignmentInfo[Len(alignmentInfo)].sub.line

\* ------------------------------------------------------------------- C21
\* the mask of the lines that only one view has: the removed mask in the view
\* configured as old, the added mask in the other one
MaskOf(view) ==
    IF view = args.settings.OldFileViewId THEN MARKER_MASK_REMOVED ELSE MARKER_MASK_ADDED

\* the document of cmpInfo that shows a view
DocOf(view) == IF cmpInfo.doc1.view = view THEN cmpInfo.doc1 ELSE cmpInfo.doc2

\* the first line behind the compared section of a view, the blank line of
\* the line diff included
SectionEnd(view) ==
    (IF cmpInfo.doc1.view = view THEN hist.sec1.off ELSE hist.sec2.off)
    + Len(IF view = MAIN_VIEW THEN doc1LineHashes ELSE doc2LineHashes)

\* the lines of block k that are neither moved nor changed lines of a pair
PlainLines(k) ==
    LET bd == cmpInfo.diffBlocks[k]
    IN  {n \in 0..(bd.len - 1) :
            /\ isMoved(bd, n) = NOT_MOVED
            /\ \A c \in 1..Len(bd.changedLines) : bd.changedLines[c].line # n}

\* the view whose lines block k holds
ViewOfBlock(k) ==
    IF cmpInfo.diffBlocks[k].type = DIFF_IN_1 THEN cmpInfo.doc1.view ELSE cmpInfo.doc2.view

\* the roles of the two documents have been exchanged
RolesSwapped == cmpInfo.doc1.view = SUB_VIEW /\ cmpInfo.doc2.view = MAIN_VIEW

\* C21: whichever document is treated as the first one, a removed marker is
\* only ever set in the view configured as old and an added marker in the
\* other view; once every block is marked, each line that only one view has
\* (not moved, not a changed line) carries the mask of its view; the main
\* record of every alignment entry holds a mask of the main view and a line of
\* the main view, the sub record those of the sub view, and the two line
\* counters end behind the section of their own view.
C21_RolesOnly ==
    /\ \A m \in markers :
          /\ m.mask = MARKER_MASK_REMOVED => m.view = args.settings.OldFileViewId
          /\ m.mask = MARKER_MASK_ADDED => m.view # args.settings.OldFileViewId
    /\ \A k \in 1..Len(alignmentInfo) :
          /\ alignmentInfo[k].main.diffMask \in {NO_MASK, MARKER_MASK_CHANGED, MaskOf(MAIN_VIEW)}
          /\ alignmentInfo[k].sub.diffMask \in {NO_MASK, MARKER_MASK_CHANGED, MaskOf(SUB_VIEW)}
          /\ alignmentInfo[k].main.line <= SectionEnd(MAIN_VIEW)
          /\ alignmentInfo[k].sub.line <= SectionEnd(SUB_VIEW)
    /\ pc = "phase3" =>
          /\ alignPair.main.line = SectionEnd(MAIN_VIEW)
          /\ alignPair.sub.line = SectionEnd(SUB_VIEW)
          /\ \A k \in 1..Len(cmpInfo.diffBlocks) :
                cmpInfo.diffBlocks[k].type # DIFF_MATCH =>
                    \A n \in PlainLines(k) :
                        Marker(ViewOfBlock(k), cmpInfo.diffBlocks[k].off + n,
                               MaskOf(ViewOfBlock(k))) \in markers

\* every block of a compare with exchanged roles is marked, the old file is in
\* the sub view, and a line that only the main view has carries the added mask
\* in the main view and in the main record of an alignment entry
C21_Witness ==
    /\ pc = "phase3"
    /\ RolesSwapped
    /\ args.settings.OldFileViewId = SUB_VIEW
    /\ \E m \in markers : m.view = MAIN_VIEW /\ m.mask = MARKER_MASK_ADDED
    /\ \E k \in 1..Len(alignmentInfo) :
          /\ alignmentInfo[k].main.diffMask = MARKER_MASK_ADDED
          /\ alignmentInfo[k].sub.diffMask = NO_MASK
    /\ alignPair.main.line > alignPair.sub.line

\* ------------------------------------------------------------------- C22
\* the candidate offsets of a call of the locator
CandidateRange(p) == 0..(p.longerChunk.lineCount - p.shorterChunk.lineCount)

\* C22: for chunks with shorter.lineCount <= longer.lineCount, every line the
\* locator probes or is about to probe and the offset it returns lie in
\* [0, longer.lineCount - shorter.lineCount]; the probe is never negative and
\* the table of word indexes is never read outside its bounds.
C22_ProbeInRange ==
    pc = "probe" /\ blocks.shorterChunk.lineCount <= blocks.longerChunk.lineCount =>
        /\ \A k \in 1..Len(blocks.probed) : blocks.probed[k][1] \in CandidateRange(blocks)
        /\ blocks.state = "loop" /\ ProbeLoops(blocks) =>
              /\ blocks.line \in CandidateRange(blocks)
              /\ InLineTable(blocks.longerChunk, blocks.line)
        /\ blocks.state = "returned" => blocks.ret \in CandidateRange(blocks)
        /\ blocks.state # "fault"

\* ------------------------------------------------------------------- C23
\* C23: the probe loop of the locator terminates for every pair of chunks: it
\* is left by the return of the function and by nothing else, and the number
\* of probes is bounded by the candidate range (twice the number of candidate
\* offsets).
C23_ProbeTerminates ==
    pc = "probe" /\ blocks.state # "call" =>
        /\ blocks.state # "fault"
        /\ blocks.state = "loop" => blocks.step >= 1
        /\ Len(blocks.probed) <= 2 * (blocks.endLine + 1)

\* ------------------------------------------------------------------- C24
\* no candidate offset of the call has a matching alphanumeric word
NoCandidateMatches(p) ==
    \A line \in CandidateRange(p) : SubChunkScore(p.shorterChunk, p.longerChunk, line) = 0

\* C24: the locator returns 0 whenever no candidate offset has a nonzero count
\* of matched alphanumeric words, at once after the probe of offset 0, and it
\* returns 0 without a probe when the two chunks have the same line count.
C24_ZeroWhenNoMatch ==
    pc = "probe" /\ blocks.state = "returned" =>
        /\ NoCandidateMatches(blocks) =>
              blocks.ret = 0 /\ Len(blocks.probed) <= 1
        /\ blocks.shorterChunk.lineCount = blocks.longerChunk.lineCount =>
              blocks.ret = 0 /\ blocks.probed = <<>>

\* the locator has returned from a call with several candidate offsets, none
\* of them with a match, after the one probe of offset 0
C24_Witness ==
    /\ pc = "probe"
    /\ blocks.state = "returned"
    /\ blocks.longerChunk.lineCount >= blocks.shorterChunk.lineCount + 2
    /\ NoCandidateMatches(blocks)
    /\ blocks.probed = << <<0, 0>> >>
    /\ blocks.ret = 0

\* ------------------------------------------------------------------- C25
\* the count of matched alphanumeric words of the returned offset: the count
\* of that line of the longer chunk, and the count read by its last probe for
\* an offset outside the chunk
ReturnedScore(p) ==
    IF InLineTable(p.longerChunk, p.ret)
    THEN SubChunkScore(p.shorterChunk, p.longerChunk, p.ret)
    ELSE LET ks == {k \in 1..Len(p.probed) : p.probed[k][1] = p.ret}
         IN  IF ks = {} THEN -1 ELSE p.probed[SetMax(ks)][2]

\* C25: the offset the locator returns is locally best: its count of matched
\* alphanumeric words is at least the count of every offset probed during the
\* search, that of offset 0 included.
C25_LocallyBest ==
    pc = "probe" /\ blocks.state = "returned" =>
        /\ \A k \in 1..Len(blocks.probed) : ReturnedScore(blocks) >= blocks.probed[k][2]
        /\ blocks.probed # <<>> =>
              ReturnedScore(blocks) >= SubChunkScore(blocks.shorterChunk, blocks.longerChunk, 0)

\* the locator has returned an offset above 0 that was probed with the same
\* count as offset 0, after probes of offsets with a smaller count
C25_Witness ==
    /\ pc = "probe"
    /\ blocks.state = "returned"
    /\ blocks.ret > 0
    /\ blocks.ret \in CandidateRange(blocks)
    /\ Len(blocks.probed) >= 3
    /\ ReturnedScore(blocks) = 2
    /\ \E k \in 1..Len(blocks.probed) :
          blocks.probed[k][1] \in CandidateRange(blocks) /\ blocks.probed[k][2] = 1

\* ------------------------------------------------------------------- C26
\* the two sides of the returned call in their final roles
CallSides ==
    BlockSides(blocks.doc1, blocks.doc2, blocks.settings, blocks.blockDiff1, blocks.blockDiff2)

\* lines 470-503: bestMatchingLine2 at the head of the turn for line1, the
\* line the scan of line 481 starts at
RECURSIVE ScanStart(_, _, _, _)
ScanStart(sides, lwm, l2len, line1) ==
    IF line1 = 0 THEN 0
    ELSE LET before == ScanStart(sides, lwm, l2len, line1 - 1)
         IN  IF isMoved(sides.p1.blockDiff, line1 - 1) # NOT_MOVED THEN before
             ELSE LET sel == ScanLine2(sides, lwm, l2len, line1 - 1, before,
                                       [maxConvergence |-> 0, maxLine2Len |-> 0,
                                        bestMatchingLine2 |-> before])
                  IN  IF MapsEnough(sel.maxConvergence) THEN sel.bestMatchingLine2 + 1
                      ELSE sel.bestMatchingLine2

\* the line behind the line of chunk 2 assigned last before the turn of line
\* a of chunk 1, 0 if none was assigned
AfterLastAssigned(a) ==
    SetMax({0} \cup {Mapping1(e) + 1 : e \in {e \in 0..(a - 1) : Mapping1(e) # -1}})

\* C26: in compareBlocks the scan of the candidates of each line of chunk 1
\* starts right behind the line of chunk 2 of the most recent assignment, at
\* line 0 if there is none; a line of chunk 1 left unmapped does not change
\* where the scans of the later lines start.
C26_ScanAfterLastAssigned ==
    pc = "compareBlocks" /\ Returned =>
        \A a \in Lines1 :
            isMoved(FirstBlock, a) = NOT_MOVED =>
                ScanStart(CallSides, blocks.ret.lineWordsMatch, blocks.ret.line2Len, a)
                    = AfterLastAssigned(a)

\* ------------------------------------------------------------------- C27
\* the lines of chunk 2 the scan for line a of chunk 1 looks at and does not
\* skip: from the start of the scan on, with a match, not moved
Candidates(a) ==
    LET sides == CallSides
    IN  {b \in Lines2 :
            /\ b >= ScanStart(sides, blocks.ret.lineWordsMatch, blocks.ret.line2Len, a)
            /\ At0(At0(blocks.ret.lineWordsMatch, a), b) > 0
            /\ At0(blocks.ret.line2Len, b) > 0
            /\ isMoved(sides.p2.blockDiff, b) = NOT_MOVED}

\* what the scan of lines 481-495 for line a of chunk 1 ends with
Selection(a) ==
    LET sides == CallSides
        start == ScanStart(sides, blocks.ret.lineWordsMatch, blocks.ret.line2Len, a)
    IN  ScanLine2(sides, blocks.ret.lineWordsMatch, blocks.ret.line2Len, a, start,
                  [maxConvergence |-> 0, maxLine2Len |-> 0, bestMatchingLine2 |-> start])

\* candidate b is better than candidate c: more convergent, or as convergent
\* with more alphanumeric words, or equal in both and before it
Better(a, b, c) ==
    \/ Convergence(a, b) > Convergence(a, c)
    \/ /\ Convergence(a, b) = Convergence(a, c)
       /\ At0(blocks.ret.line2Len, b) > At0(blocks.ret.line2Len, c)
    \/ /\ Convergence(a, b) = Convergence(a, c)
       /\ At0(blocks.ret.line2Len, b) = At0(blocks.ret.line2Len, c)
       /\ b <= c

\* C27: for each line of chunk 1, compareBlocks selects among the scanned
\* candidates with a nonzero match count the one of maximal convergence, of
\* the largest alphanumeric word count among those, and of the smallest index
\* among those; a selection of convergence 50 or more is the mapping of the
\* line; the convergence of every pair of lines is in [0, 100].
C27_SelectsBest ==
    pc = "compareBlocks" /\ Returned =>
        /\ \A a \in Lines1 : \A b \in Lines2 :
              At0(blocks.ret.line2Len, b) > 0 => Convergence(a, b) \in 0..100
        /\ \A a \in Lines1 :
              isMoved(FirstBlock, a) = NOT_MOVED /\ Candidates(a) # {} =>
                  /\ Selection(a).bestMatchingLine2 \in Candidates(a)
                  /\ \A c \in Candidates(a) : Better(a, Selection(a).bestMatchingLine2, c)
                  /\ Selection(a).maxConvergence
                        = Convergence(a, Selection(a).bestMatchingLine2)
                  /\ Selection(a).maxConvergence >= ConvergenceThreshold
                        => Mapping1(a) = Selection(a).bestMatchingLine2

\* a line of chunk 1 has two candidates of the same convergence, and the
\* second one, which has more alphanumeric words, is selected and mapped
C27_Witness ==
    /\ pc = "compareBlocks"
    /\ Returned
    /\ \E a \in Lines1 :
          /\ Candidates(a) = {0, 1}
          /\ Convergence(a, 0) = Convergence(a, 1)
          /\ At0(blocks.ret.line2Len, 1) > At0(blocks.ret.line2Len, 0)
          /\ Mapping1(a) = 1

\* ------------------------------------------------------------------- C28
\* C28: the line mapping compareBlocks builds keeps the order of the lines:
\* of two mapped lines of chunk 1 the later one is mapped to a later line of
\* chunk 2, and likewise from chunk 2 to chunk 1, so no two mapped pairs
\* cross or meet.
C28_MappingOrdered ==
    pc = "compareBlocks" /\ Returned =>
        /\ \A a1 \in Lines1 : \A a2 \in Lines1 :
              a1 < a2 /\ Mapping1(a1) # -1 /\ Mapping1(a2) # -1
                  => Mapping1(a1) < Mapping1(a2)
        /\ \A b1 \in Lines2 : \A b2 \in Lines2 :
              b1 < b2 /\ Mapping2(b1) # -1 /\ Mapping2(b2) # -1
                  => Mapping2(b1) < Mapping2(b2)

\* both lines of a chunk of two lines are mapped, each to the line of the
\* same place in the other chunk, and both pairs are changed lines
C28_Witness ==
    /\ pc = "compareBlocks"
    /\ Returned
    /\ blocks.ret.pChunk1.lineCount = 2
    /\ blocks.ret.pChunk2.lineCount = 2
    /\ Mapping1(0) = 0 /\ Mapping2(0) = 0
    /\ Mapping1(1) = 1 /\ Mapping2(1) = 1
    /\ Len(FirstBlock.changedLines) = 2

\* ------------------------------------------------------------------- C29
\* the lines of a block that are changed lines
ChangedLinesOf(bd) == {bd.changedLines[c].line : c \in 1..Len(bd.changedLines)}

\* the moved lines of a block: MOVED or MOVED_MULTIPLE
MovedLinesOf(bd) == {n \in 0..(bd.len - 1) : isMoved(bd, n) # NOT_MOVED}

\* C29: a line marked MOVED or MOVED_MULTIPLE in either block of a reconciled
\* pair has no line mapping, is the mapping of no line, and is in no list of
\* changed lines, whichever block ends in the first role.
C29_MovedNeverMapped ==
    pc = "compareBlocks" /\ Returned =>
        /\ \A a \in MovedLinesOf(FirstBlock) :
              /\ Mapping1(a) = -1
              /\ \A b \in Lines2 : Mapping2(b) # a
              /\ a \notin ChangedLinesOf(FirstBlock)
        /\ \A b \in MovedLinesOf(SecondBlock) :
              /\ Mapping2(b) = -1
              /\ \A a \in Lines1 : Mapping1(a) # b
              /\ b \notin ChangedLinesOf(SecondBlock)

\* the caller's second block has ended in the first role; a line of it marked
\* MOVED_MULTIPLE has a candidate of convergence 50 or more and stays unmapped,
\* while another line of it is mapped and is a changed line
C29_Witness ==
    /\ pc = "compareBlocks"
    /\ Returned
    /\ blocks.ret.first = 2
    /\ \E a \in MovedLinesOf(FirstBlock) :
          /\ isMoved(FirstBlock, a) = MOVED_MULTIPLE
          /\ \E b \in Lines2 : Convergence(a, b) >= ConvergenceThreshold
          /\ Mapping1(a) = -1
    /\ ChangedLinesOf(FirstBlock) # {}

\* ------------------------------------------------------------------- C30
\* the word diff of the returned call: the edit script of the two word
\* sequences in their final roles
CallDiff == WordDiff(CallSides.words1, CallSides.words2)

\* the number of words of the second sequence the runs before run r cover
Consumed2(chunkDiff, r) ==
    RunsBefore(chunkDiff, r, DIFF_MATCH) + RunsBefore(chunkDiff, r, DIFF_IN_2)

\* the matched words: run r is a MATCH run, wordIdx a place of it in the first
\* sequence, and the place of the aligned word in the second sequence
MatchedWords(sides, chunkDiff) ==
    {<<rw[1], rw[2], Consumed2(chunkDiff, rw[1]) + rw[2] - chunkDiff[rw[1]].off>> :
        rw \in
            {rw \in (1..Len(chunkDiff)) \X (0..(Len(sides.words1) - 1)) :
                /\ chunkDiff[rw[1]].type = DIFF_MATCH
                /\ rw[2] >= chunkDiff[rw[1]].off
                /\ rw[2] < chunkDiff[rw[1]].off + chunkDiff[rw[1]].len}}

\* matchCount(lineA, lineB): the matched alphanumeric words of lineA whose
\* aligned word is of lineB
MatchCount(sides, matched, a, b) ==
    Cardinality({m \in matched :
        /\ At0(sides.words1, m[2]).type = ALPHANUMCHAR
        /\ At0(sides.words1, m[2]).line = a
        /\ At0(sides.words2, m[3]).line = b})

\* the indexes of lines 458 and 462 for a matched word
Index1(sides, m) == m[2] + At0(sides.p1.chunk.lineStartWordIdx, sides.p1.startLine)

Index2(sides, chunkDiff, m) ==
    m[2] + At0(sides.p2.chunk.lineStartWordIdx, sides.p2.startLine)
         + WordOffsetAt(chunkDiff, m[1])

\* the counts kept are the match counts, and the indexes are inside the word
\* sequences and are those of the matched word and of its aligned word
CountsOfMatched(sides, chunkDiff, matched, lwm) ==
    /\ \A a \in 0..(sides.p1.chunk.lineCount - 1) :
          \A b \in 0..(sides.p2.chunk.lineCount - 1) :
              At0(At0(lwm, a), b) = MatchCount(sides, matched, a, b)
    /\ \A m \in matched :
          /\ Index1(sides, m) \in 0..(Len(sides.p1.chunk.words) - 1)
          /\ Index2(sides, chunkDiff, m) \in 0..(Len(sides.p2.chunk.words) - 1)
          /\ At0(sides.p1.chunk.words, Index1(sides, m)) = At0(sides.words1, m[2])
          /\ At0(sides.p2.chunk.words, Index2(sides, chunkDiff, m)) = At0(sides.words2, m[3])
          /\ At0(sides.words1, m[2]).hash = At0(sides.words2, m[3]).hash

CountsOfDiff(sides, chunkDiff, lwm) ==
    CountsOfMatched(sides, chunkDiff, MatchedWords(sides, chunkDiff), lwm)

CountsOfSides(sides, lwm) ==
    CountsOfDiff(sides, WordDiff(sides.words1, sides.words2), lwm)

\* C30: after the word diff of two blocks, the count kept for lineA and lineB
\* is the number of alphanumeric words of MATCH runs that belong to lineA in
\* the first sequence and whose aligned word in the second sequence belongs to
\* lineB; every index used to find the owning lines (place in the run + word
\* index of the start line + accumulated offset of the inserted and deleted
\* words) is inside the word sequence of its chunk and is the index of the
\* matched word and of its aligned word, for either outcome of the two swaps.
C30_MatchCounts ==
    pc = "compareBlocks" /\ Returned => CountsOfSides(CallSides, blocks.ret.lineWordsMatch)

\* both swaps have taken place: the caller's first block has more lines and
\* is back in the first role with a start line above 0, behind a run of words
\* only the other chunk has, and a count of its second line is not 0
C30_Witness ==
    /\ pc = "compareBlocks"
    /\ Returned
    /\ Len(blocks.doc1) > Len(blocks.doc2)
    /\ blocks.ret.first = 1
    /\ CallSides.p1.startLine > 0
    /\ \E k \in 1..Len(CallDiff) : CallDiff[k].type = DIFF_IN_2 /\ k < Len(CallDiff)
    /\ \E b \in Lines2 : At0(At0(blocks.ret.lineWordsMatch, 1), b) > 0

\* ------------------------------------------------------------------- C31
\* neither chunk holds a line mapping and neither block a changed line
NoFurtherAction(ret) ==
    /\ \A a \in 0..(ret.pChunk1.lineCount - 1) : At0(ret.pChunk1.lineMappings, a) = -1
    /\ \A b \in 0..(ret.pChunk2.lineCount - 1) : At0(ret.pChunk2.lineMappings, b) = -1
    /\ ret.blockDiff1 = blocks.blockDiff1
    /\ ret.blockDiff2 = blocks.blockDiff2
    /\ Len(ret.blockDiff1.changedLines) = 0
    /\ Len(ret.blockDiff2.changedLines) = 0

ZeroEdits(chunkDiff) == Len(chunkDiff) = 0

\* C31: when the word diff of the two blocks has no edits, compareBlocks
\* returns false, and afterwards no line of either chunk is mapped and the two
\* blocks are as the caller passed them, without any changed line.
C31_ZeroEditsNoAction ==
    (pc = "compareBlocks" /\ blocks.state = "returned" /\ ZeroEdits(CallDiff))
        => (~blocks.ret.ret /\ NoFurtherAction(blocks.ret))

\* a call for two blocks of different text whose words are the same under the
\* settings, returned with false
C31_Witness ==
    /\ pc = "compareBlocks"
    /\ blocks.state = "returned"
    /\ blocks.doc1 # blocks.doc2
    /\ Len(CallSides.words1) > 0
    /\ ZeroEdits(CallDiff)
    /\ ~blocks.ret.ret

\* ------------------------------------------------------------------- C32
\* block k (counted from 1) is an ONLY_IN_A block with an ONLY_IN_B block next
FirstOfPair(bs, k) ==
    /\ bs[k].type = DIFF_IN_1
    /\ k < Len(bs)
    /\ bs[k + 1].type = DIFF_IN_2

\* block k is the ONLY_IN_B block next after an ONLY_IN_A block
SecondOfPair(bs, k) == k > 1 /\ FirstOfPair(bs, k - 1)

\* the block a pair reference of block k has to point to, 0 for none
Counterpart(bs, k) ==
    IF FirstOfPair(bs, k) THEN k + 1 ELSE IF SecondOfPair(bs, k) THEN k - 1 ELSE 0

\* C32: after the pairing phase a block has a pair reference exactly when it is
\* an ONLY_IN_A block with an ONLY_IN_B block next after it, or that
\* ONLY_IN_B block; the reference is to that neighbour, the block comparison
\* was called once for the two and for no other block, and MATCH blocks and
\* inserted or deleted blocks without such a neighbour have no reference.
C32_PairsExactlyAdjacent ==
    hist.pairingDone =>
        \A k \in 1..Len(cmpInfo.diffBlocks) :
            /\ cmpInfo.diffBlocks[k].matchedDiff = Counterpart(cmpInfo.diffBlocks, k)
            /\ hist.pairWrites[k] = IF Counterpart(cmpInfo.diffBlocks, k) # 0 THEN 1 ELSE 0
            /\ cmpInfo.diffBlocks[k].type = DIFF_MATCH => cmpInfo.diffBlocks[k].matchedDiff = 0

\* the pairing phase is over for a MATCH block, an ONLY_IN_A block and the
\* ONLY_IN_B block after it
C32_Witness ==
    /\ hist.pairingDone
    /\ Len(cmpInfo.diffBlocks) = 3
    /\ cmpInfo.diffBlocks[1].type = DIFF_MATCH
    /\ cmpInfo.diffBlocks[1].matchedDiff = 0
    /\ FirstOfPair(cmpInfo.diffBlocks, 2)
    /\ cmpInfo.diffBlocks[2].matchedDiff = 3
    /\ cmpInfo.diffBlocks[3].matchedDiff = 2

\* ------------------------------------------------------------------- C33
\* the caller's block that ended in the first role, and the other one
FirstRoleBlock(ret) == IF ret.first = 1 THEN ret.blockDiff1 ELSE ret.blockDiff2

SecondRoleBlock(ret) == IF ret.first = 1 THEN ret.blockDiff2 ELSE ret.blockDiff1

\* the word diff of line a of the first chunk and line b of the second is not empty
LinesDiffer(ret, a, b) ==
    WordHashes(LineWordRange(ret.pChunk1, a)) # WordHashes(LineWordRange(ret.pChunk2, b))

\* the mapped pairs of lines whose word diff is not empty
ChangedPairs(ret) ==
    {<<a, b>> \in (0..(ret.pChunk1.lineCount - 1)) \X (0..(ret.pChunk2.lineCount - 1)) :
        At0(ret.pChunk1.lineMappings, a) = b /\ LinesDiffer(ret, a, b)}

\* the lines of a list of changed lines are inside the block and increase
ListedInOrder(bd) ==
    /\ \A j \in 1..Len(bd.changedLines) : bd.changedLines[j].line \in 0..(bd.len - 1)
    /\ \A j \in 1..(Len(bd.changedLines) - 1) :
          bd.changedLines[j].line < bd.changedLines[j + 1].line

ChangedListsOf(pairs, bd1, bd2) ==
    /\ Len(bd1.changedLines) = Len(bd2.changedLines)
    /\ Len(bd1.changedLines) = Cardinality(pairs)
    /\ \A j \in 1..Len(bd1.changedLines) :
          <<bd1.changedLines[j].line, bd2.changedLines[j].line>> \in pairs
    /\ ListedInOrder(bd1)
    /\ ListedInOrder(bd2)

\* C33: after compareBlocks has reconciled a pair, the two blocks list the same
\* number of changed lines, entry j of the two lists holds the two lines of the
\* j-th mapped pair of lines whose word diff is not empty, a mapped pair with an
\* empty word diff is in neither list, every listed line is a line of its own
\* block and the lines of each list strictly increase, whichever block ended
\* in the first role and whichever line compareLines put first.
C33_ChangedListsPaired ==
    pc = "compareBlocks" /\ Returned =>
        ChangedListsOf(ChangedPairs(blocks.ret), FirstRoleBlock(blocks.ret),
                       SecondRoleBlock(blocks.ret))

\* the caller's second block ended in the first role, a pair of lines is
\* mapped with an empty word diff, and a changed pair is listed whose line of
\* the first chunk has more words than its line of the second
C33_Witness ==
    /\ pc = "compareBlocks"
    /\ Returned
    /\ blocks.ret.first = 2
    /\ \E a \in Lines1 : Mapping1(a) # -1 /\ ~LinesDiffer(blocks.ret, a, Mapping1(a))
    /\ \E p \in ChangedPairs(blocks.ret) :
          Len(LineWordRange(blocks.ret.pChunk1, p[1])) > Len(LineWordRange(blocks.ret.pChunk2, p[2]))

\* ------------------------------------------------------------------- C34
\* the alignment entries tagged changed, as <<line of doc1, line of doc2>>
ChangedEntries(list, info) ==
    LET tagged == SelectSeq(list, LAMBDA e : e.main.diffMask = MARKER_MASK_CHANGED
                                             /\ e.sub.diffMask = MARKER_MASK_CHANGED)
    IN  [n \in 1..Len(tagged) |->
            <<tagged[n][pMainAlignData(info)].line, tagged[n][pSubAlignData(info)].line>>]

\* the changed line pairs of a reconciled pair of blocks, as <<line of doc1,
\* line of doc2>>: block start + changed-line index on each side
PairEntries(bd, md) ==
    [j \in 1..Len(bd.changedLines) |->
        <<bd.off + bd.changedLines[j].line, md.off + md.changedLines[j].line>>]

\* those of the blocks from block k on
RECURSIVE EntriesFrom(_, _)
EntriesFrom(bs, k) ==
    IF k > Len(bs) THEN <<>>
    ELSE IF bs[k].type = DIFF_IN_1 /\ bs[k].matchedDiff # 0
         THEN PairEntries(bs[k], bs[bs[k].matchedDiff]) \o EntriesFrom(bs, k + 1)
    ELSE EntriesFrom(bs, k + 1)

\* the lengths of lines 608-609 and 645-646 for one block of a pair
SubRangeLengths(bd) ==
    {bd.changedLines[j].line - (IF j = 1 THEN 0 ELSE bd.changedLines[j - 1].line + 1) :
        j \in 1..Len(bd.changedLines)}
    \cup {bd.len - (IF Len(bd.changedLines) = 0 THEN 0
                    ELSE bd.changedLines[Len(bd.changedLines)].line + 1)}

\* C34: in the alignment list of a completed compare the entries tagged
\* changed are, in order, those of the changed line pairs of the reconciled
\* pairs: the j-th one of a pair has on each side the line block start +
\* j-th changed-line index of that side; and every length of a sub-range
\* between changed lines, on either side, is 0 or more.
C34_ChangedEntriesPaired ==
    hist.assemblyDone =>
        /\ ChangedEntries(alignmentInfo, cmpInfo) = EntriesFrom(cmpInfo.diffBlocks, 1)
        /\ \A k \in 1..Len(cmpInfo.diffBlocks) :
              cmpInfo.diffBlocks[k].matchedDiff # 0 =>
                  \A len \in SubRangeLengths(cmpInfo.diffBlocks[k]) : len >= 0

\* a completed compare with a reconciled pair whose changed line of doc2 is
\* not the first line of its block, doc1 being shown in the sub view
C34_Witness ==
    /\ hist.assemblyDone
    /\ cmpInfo.doc1.view = SUB_VIEW
    /\ \E k \in 1..Len(cmpInfo.diffBlocks) :
          /\ cmpInfo.diffBlocks[k].type = DIFF_IN_2
          /\ cmpInfo.diffBlocks[k].matchedDiff # 0
          /\ Len(cmpInfo.diffBlocks[k].changedLines) >= 1
          /\ cmpInfo.diffBlocks[k].changedLines[1].line >= 1
    /\ Len(ChangedEntries(alignmentInfo, cmpInfo)) >= 1

\* ------------------------------------------------------------------- C35
\* the document of a compare information that shows a view
DocOfView(info, view) == IF info.doc1.view = view THEN info.doc1 ELSE info.doc2

\* the condition of the blank line, from the sections before the line diff
\* and the blocks after it
BlankLineDue(blocksAfter) ==
    /\ Len(blocksAfter) > 0
    /\ blocksAfter[1].type # DIFF_MATCH
    /\ (cmpInfo.doc1.section.off = 0 \/ cmpInfo.doc2.section.off = 0)

\* every block starts at the section start of its document + the lengths of
\* the blocks of its side before it
OffsetsShifted(info) ==
    \A k \in 1..Len(info.diffBlocks) :
        info.diffBlocks[k].off =
            (IF info.diffBlocks[k].type = DIFF_IN_2
             THEN info.doc2.section.off + SideLen(info.diffBlocks, k - 1, DIFF_IN_2)
             ELSE info.doc1.section.off + SideLen(info.diffBlocks, k - 1, DIFF_IN_1))

\* the step of the line diff with the blank line, and without it
BlankLineStep ==
    /\ \A v \in {MAIN_VIEW, SUB_VIEW} :
          /\ docs'[v] = << <<>> >> \o docs[v]
          /\ DocOfView(cmpInfo', v).section.off = DocOfView(cmpInfo, v).section.off + 1
          /\ blocks'[v] = blocks[v]
    /\ OffsetsShifted(cmpInfo')

NoBlankLineStep ==
    /\ docs' = docs
    /\ blocks' = blocks
    /\ \A v \in {MAIN_VIEW, SUB_VIEW} :
          DocOfView(cmpInfo', v).section.off = DocOfView(cmpInfo, v).section.off
    /\ OffsetsShifted(cmpInfo')

\* C35: the step of the line diff puts one empty line in front of both
\* documents exactly when the line diff has a block, its first block is not
\* MATCH and one of the two sections starts at line 0; both section starts are
\* then one higher, a document is changed since its save point afterwards
\* exactly if it was before, and every block offset is shifted by the section
\* start of its document; in all other cases, and in every other step of the
\* compare, the text and the save points stay as they are.
C35_BlankLineExactly ==
    [][IF pc = "diff" /\ pc' \in {"phase1", "close"}
       THEN (IF BlankLineDue(cmpInfo'.diffBlocks) THEN BlankLineStep ELSE NoBlankLineStep)
       ELSE docs' = docs /\ blocks' = blocks]_vars

\* the blank line has been put in front of both documents for a compare
\* whose sub view section starts at line 1, the main view document at its
\* save point, the sub view document changed since its save point
C35_Witness ==
    /\ pc = "phase1"
    /\ args.subViewSection.off = 1
    /\ \A v \in {MAIN_VIEW, SUB_VIEW} : Len(docs[v]) >= 2 /\ docs[v][1] = <<>>
    /\ blocks = [v \in {MAIN_VIEW, SUB_VIEW} |-> v = SUB_VIEW]

\* ------------------------------------------------------------------ C39
\* the action that undoes a deletion made by the given action
InverseAction(action) ==
    CASE action = SC_PERFORMED_USER -> SC_PERFORMED_UNDO
      [] action = SC_PERFORMED_REDO -> SC_PERFORMED_UNDO
      [] action = SC_PERFORMED_UNDO -> SC_PERFORMED_REDO

\* the lines of a section carry the masks the section saved
MarkersOf(view, section) ==
    \A k \in 1..Len(section.markers) : view[section.startLine + k] = section.markers[k]

OutsideKept(before, after, section) ==
    \A l \in 1..Len(before) :
        (l - 1 < section.startLine \/ l - 1 >= section.startLine + Len(section.markers))
            => after[l] = before[l]

\* a push that recorded a section: it had several lines, none was to be
\* skipped, and the section is to be restored by the inverse action
Recorded(before, after, call) ==
    /\ call.op = "push"
    /\ call.endLine > call.startLine
    /\ before.list.skipPush = 0
    /\ PopBack(after.list.sections) = before.list.sections
    /\ Back(after.list.sections).startLine = call.startLine
    /\ Back(after.list.sections).restoreAction = InverseAction(call.currAction)
    /\ Back(after.list.sections).markers
          = [k \in 1..(call.endLine - call.startLine + 1) |-> before.view[call.startLine + k]]

\* a pop that restored the last section and removed it
Restored(before, after, call) ==
    /\ call.op = "pop"
    /\ call.currAction = Back(before.list.sections).restoreAction
    /\ call.startLine = Back(before.list.sections).startLine
    /\ after.list.sections = PopBack(before.list.sections)
    /\ after.list.skipPush = before.list.skipPush
    /\ MarkersOf(after.view, Back(before.list.sections))
    /\ OutsideKept(before.view, after.view, Back(before.list.sections))

\* the sections but for the lineReplace flag of the last one
SectionsKept(s1, s2) ==
    /\ Len(s1) = Len(s2)
    /\ \A k \in 1..Len(s1) :
          /\ s1[k].startLine = s2[k].startLine
          /\ s1[k].restoreAction = s2[k].restoreAction
          /\ s1[k].markers = s2[k].markers
          /\ k < Len(s1) => s1[k].lineReplace = s2[k].lineReplace

DeletedStep(before, after, call) ==
    /\ after.list.skipPush >= 0
    /\ call.op = "clear" => after.list = [skipPush |-> 0, sections |-> <<>>]
    /\ (call.op # "clear" /\ Len(after.list.sections) < Len(before.list.sections))
          => Restored(before, after, call)
    /\ Len(after.list.sections) > Len(before.list.sections)
          => Recorded(before, after, call)
    /\ (call.op \in {"push", "pop"} /\ Len(after.list.sections) = Len(before.list.sections))
          => SectionsKept(before.list.sections, after.list.sections)
    /\ (call.op = "pop" /\ Len(after.list.sections) = Len(before.list.sections))
          => after.view = before.view
    /\ (call.op = "pop" /\ Len(before.list.sections) = 0)
          => /\ after.list.skipPush = before.list.skipPush + 1
             /\ after.list.sections = <<>>
    /\ (call.op = "push" /\ call.endLine > call.startLine /\ before.list.skipPush > 0)
          => /\ after.list.skipPush = before.list.skipPush - 1
             /\ after.list.sections = before.list.sections
             /\ after.view = before.view
    /\ (call.op = "push" /\ ~(call.endLine > call.startLine /\ before.list.skipPush > 0))
          => after.list.skipPush = before.list.skipPush

\* C39: a section recorded by push is to be restored by the inverse of the
\* deleting action; its markers are restored and it is removed only by a pop
\* with that action and with the start line of the section; a pop on an empty
\* list raises skipPush by one and each multi-line push met with a non-zero
\* skipPush is skipped and lowers it by one, no other push changes it;
\* skipPush is never negative; clear() empties the list and sets skipPush to 0
C39_RestoredOnlyByInversePop ==
    [][DeletedStep(blocks.lv, blocks'.lv, blocks')]_vars

\* a pop has restored a marked line of the second of two sections, after a
\* push had been skipped
C39_Witness ==
    /\ pc = "deletedSections"
    /\ blocks.op = "pop"
    /\ blocks.lv.path = "restored"
    /\ Len(blocks.lv.list.sections) = 1
    /\ blocks.startLine = 1
    /\ blocks.lv.view[2] = 1
    /\ blocks.lv.list.skipPush = 1

\* ------------------------------------------------------------------ C40
RECURSIVE MinPosition(_)
MinPosition(mods) ==
    IF Len(mods) = 1 THEN mods[1].position
    ELSE LET rest == MinPosition(Tail(mods))
         IN IF mods[1].position < rest THEN mods[1].position ELSE rest

RECURSIVE SumAdded(_)
SumAdded(mods) ==
    IF mods = <<>> THEN 0
    ELSE (IF mods[1].modificationType = SC_MOD_INSERTTEXT THEN mods[1].linesAdded ELSE 0)
         + SumAdded(Tail(mods))

RECURSIVE SumDeleted(_)
SumDeleted(mods) ==
    IF mods = <<>> THEN 0
    ELSE (IF mods[1].modificationType = SC_MOD_DELETETEXT THEN 0 - mods[1].linesAdded ELSE 0)
         + SumDeleted(Tail(mods))

CoalescedInto(work, mods) ==
    /\ isPending(work)
    /\ work.changePos = MinPosition(mods)
    /\ work.linesAdded = SumAdded(mods)
    /\ work.linesDeleted = SumDeleted(mods)

UpdateStep(before, after) ==
    /\ (after.op = "modified" /\ ~before.work.fullCompare)
          => CoalescedInto(after.work, after.coalesced)
    /\ (after.op = "modified" /\ before.work.fullCompare /\ isPending(before.work))
          => after.work = before.work
    /\ after.op = "run"
          => /\ after.work.linesAdded = 0
             /\ after.work.linesDeleted = 0
             /\ ~after.work.fullCompare

\* C40: a modification that meets a pending incremental update leaves the
\* update pending with changePos the least position and linesAdded and
\* linesDeleted the sums of the modifications taken into it; a modification
\* that meets a pending full re-compare changes nothing of it; when the
\* update has run linesAdded and linesDeleted are 0 and fullCompare is false
C40_Coalesced ==
    [][UpdateStep(blocks, blocks')]_vars

\* ---------------------------------------------------------------------------
\* the compare list of the plugin

PairsOf(compareList, buffId) ==
    {k \in 1..Len(compareList) : HasBuffId(compareList[k], buffId)}

\* C37: no buffer is a member of two entries of the compare list at the same
\* time, after any sequence of Set as First, Compare, Clear and changes of
\* the tab and the view
C37_NoBufferInTwoPairs ==
    pc = "plugin" =>
        \A b \in Buffers : Cardinality(PairsOf(blocks.pl.compareList, b)) <= 1

\* a pair is known by the buffers of its two files
PairKey(pair) == <<pair.file[1].buffId, pair.file[2].buffId>>

PairKeys(compareList) == {PairKey(compareList[k]) : k \in 1..Len(compareList)}

\* compare() returns after the engine ran for the pair call.cmpPair
EngineReturned(before, after) ==
    (before.call.at = "engine" /\ after.call.at = "idle") =>
        (PairKey(before.pl.compareList[before.call.cmpPair])
            \in PairKeys(after.pl.compareList))
        <=> after.last.result = COMPARE_MISMATCH

\* compare() of a buffer that is not compared returns before the engine ran
Abandoned(before, after) ==
    (/\ before.call.at = "idle"
     /\ after.last.op = "compare"
     /\ after.last.result = "returned"
     /\ getCompare(before.pl.compareList, getCurrentBuffId(before.pl.npp)) = 0) =>
        /\ PairKeys(after.pl.compareList) = PairKeys(before.pl.compareList)
        /\ Len(after.pl.compareList) = Len(before.pl.compareList)
        /\ after.pl.newCompare = <<>>

\* C36: after compare() has run the engine for a pair, the pair is still in
\* the compare list if and only if the result was MISMATCH (for MATCH,
\* CANCELLED and ERROR it is cleared or closed before compare() returns), and
\* a new compare abandoned before the engine runs leaves no pair behind
C36_PairKeptIffMismatch ==
    [][pc = "plugin" => EngineReturned(blocks, blocks') /\ Abandoned(blocks, blocks')]_vars

\* compare() has returned with a MATCH for one pair while another pair stays
C36_Witness ==
    /\ pc = "plugin"
    /\ blocks.call.at = "idle"
    /\ blocks.last.op = "compare"
    /\ blocks.last.result = COMPARE_MATCH
    /\ Len(blocks.pl.compareList) = 1

\* ---------------------------------------------------------------------------
\* notificationsLock

\* no delayed work of the plugin is waiting for its timer
NothingPending(pl) ==
    /\ ~isPending(pl.delayedActivation)
    /\ ~isPending(pl.delayedClosure)
    /\ ~isPending(pl.delayedUpdate)

\* a step of the plugin: the lock is down once the operation has returned,
\* and a notification that met the lock up reached no handler (but for the
\* reset of newCompare, which beNotified does not guard) and changed nothing
LockStep(before, after) ==
    /\ after.call.at = "idle" => after.pl.notificationsLock = 0
    /\ (after.last.op = "notification" /\ after.last.lock # 0) =>
          /\ after.last.handler \in {"none", "newCompare.reset"}
          /\ after.last.handler = "none" => after.pl = before.pl

\* C38: notificationsLock is balanced, every operation that raises it lowers
\* it before it returns, so it is 0 whenever no operation of the plugin is in
\* progress; while it is not 0 the buffer-activated, file-saved, modified,
\* zoom, painted and update-UI notifications, and the before-close
\* notification of a compared file, are ignored
C38_LockBalancedAndObserved ==
    [][pc = "plugin" => LockStep(blocks, blocks')]_vars

\* a notification arrived while compare() held the lock, in a state where
\* beNotified would have handled every one of its codes with the lock down
C38_Witness ==
    /\ pc = "plugin"
    /\ blocks.call.at = "engine"
    /\ blocks.pl.notificationsLock > 0
    /\ blocks.last.op = "notification"
    /\ blocks.last.lock > 0
    /\ blocks.last.handler = "none"
    /\ blocks.pl.compareList # <<>>
    /\ blocks.pl.compareMode
    /\ NothingPending(blocks.pl)


====
